---- MODULE Spec2Model ----
(***************************************************************************)
(* DeepEcoHab analysis pipeline: the seven registered stages of            *)
(* deepecohab/analysis/antenna_analysis.py over the project's results      *)
(* directory, and the pipeline driver of deepecohab/app/pages/analysis.py. *)
(*                                                                         *)
(* Spec: the stages called directly, in any order, with any options.       *)
(* SpecDriver: runs of the analysis page's start_analysis callback.        *)
(*                                                                         *)
(* A stage call is one step: the stages run to completion, single-         *)
(* threaded.  The rows of main_df, match_df, chasings_df and ranking are   *)
(* modelled; the other tables are modelled by what they were built from.   *)
(* Timestamps and durations are integers in tenths of a second.  Ratings   *)
(* (mu, sigma) are integers in hundredths.  The calendar columns that      *)
(* get_phase, get_day and get_hour add to the ranking rows are functions   *)
(* of datetime and are left out of the rows.                               *)
(***************************************************************************)
EXTENDS Integers, Sequences, FiniteSets, TLC

VARIABLES
    store,    \* <project_location>/results: key -> <<>> (no file) or <<table>>
    call,     \* the last stage call made directly by a user: inputs and outcome
    drv,      \* start_analysis: position of the running callback
    status,   \* launch_cache["analysis_status"]: <<>> or <<[percent, msg]>>
    hist,     \* history of the current run: stages started, finished, status writes
    pages,    \* browser sessions of the analysis page: project, button, callback
    projects  \* the results directory of every project the sessions work on

vars == <<store, call, drv, status, hist, pages, projects>>

(***************************************************************************)
(* Bounds                                                                  *)
(***************************************************************************)
\* number of chase episodes in the largest recording
MaxRec == 2

\* number of rows in the largest padded_df input
MaxPadded == 3

\* number of rows in the largest binary_df input
MaxBinary == 3

(***************************************************************************)
(* Project configuration (cfg)                                             *)
(***************************************************************************)
animal_ids == <<"A", "B", "C">>
cages == {"c1", "c2"}
tunnels == {"t1"}
Animals == {animal_ids[i] : i \in DOMAIN animal_ids}

(***************************************************************************)
(* The results directory                                                   *)
(***************************************************************************)
RawKeys == {"main_df", "padded_df", "binary_df", "phase_durations"}
StageKeys == {"activity_df", "cage_occupancy", "chasings_df", "ranking",
              "pairwise_meetings", "incohort_sociability", "time_alone"}
DerivedKeys == StageKeys \cup {"match_df"}
Keys == RawKeys \cup DerivedKeys

NoFile == <<>>
File(t) == <<t>>
Exists(st, key) == st[key] # NoFile

\* Python values handed between functions: kind is the Python type
NoneVal == [kind |-> "None", data |-> <<>>]
LazyFrame(t) == [kind |-> "LazyFrame", data |-> t]
DataFrame(t) == [kind |-> "DataFrame", data |-> t]
Dict(d) == [kind |-> "dict", data |-> d]

\* auxfun.load_ecohab_data(config, key, return_df=False): the persisted
\* table as a LazyFrame (a DataFrame with return_df=True), None when there
\* is no file for the key
load_ecohab_data(st, key) ==
    IF Exists(st, key) THEN LazyFrame(st[key][1]) ELSE NoneVal

\* the results directory as a call sees it, with the files the call has written
Open(st) == [files |-> st, writes |-> {}]

\* LazyFrame.sink_parquet(results_path / f"{key}.parquet"): the file is
\* replaced by the table
sink_parquet(fs, key, t) ==
    [files |-> [fs.files EXCEPT ![key] = File(t)],
     writes |-> fs.writes \cup {key}]

\* outcome of one stage call: the cached table returned at once, an
\* exception leaving the function, or the return after computing.  loads
\* are the upstream keys requested from load_ecohab_data, table the table
\* the call built (None when it built none), init the rating state
\* calculate_ranking entered its loop with
Hit(fs, v) ==
    [outcome |-> "hit", ret |-> v, table |-> NoneVal, init |-> <<>>,
     loads |-> {}, writes |-> fs.writes, store |-> fs.files]
Raise(fs, loads) ==
    [outcome |-> "error", ret |-> NoneVal, table |-> NoneVal, init |-> <<>>,
     loads |-> loads, writes |-> fs.writes, store |-> fs.files]
Return(fs, v, t, loads) ==
    [outcome |-> "computed", ret |-> v, table |-> LazyFrame(t), init |-> <<>>,
     loads |-> loads, writes |-> fs.writes, store |-> fs.files]

(***************************************************************************)
(* Time and phase utilities (auxfun)                                       *)
(***************************************************************************)
\* datetimes and durations are in tenths of a second; datetime 0 is midnight
\* of the day of the first observation
Second == 10
Hour == 3600 * Second
Day == 24 * Hour

\* the hours of the day at which the light and the dark phase start; the
\* dark phase wraps past midnight
light_phase_start == 6
dark_phase_start == 18

\* Expr.dt.truncate("1h")
truncate_1h(t) == (t \div Hour) * Hour

\* the hour-of-day bucket, 0..23
get_hour(t) == (t % Day) \div Hour

\* the calendar day index, 0 for the day of the first observation
get_day(t) == t \div Day

get_phase(t) ==
    IF light_phase_start <= get_hour(t) /\ get_hour(t) < dark_phase_start
    THEN "light_phase" ELSE "dark_phase"

\* the phase-occurrence counter: 1 for the phase the recording starts in,
\* raised by one each time the phase label changes
get_phase_count(t) ==
    1 + (t + Day - light_phase_start * Hour) \div Day
      + (t + Day - dark_phase_start * Hour) \div Day

\* the sets of at most k elements of U
RECURSIVE SubsetsUpTo(_, _)
SubsetsUpTo(U, k) ==
    IF k = 0 THEN {{}}
    ELSE LET smaller == SubsetsUpTo(U, k - 1)
         IN  smaller \cup {s \cup {x} : s \in smaller, x \in U}

(***************************************************************************)
(* Input recordings                                                        *)
(***************************************************************************)
\* One chase episode of main_df: the chased animal and then the chaser leave
\* cage c1 and cross tunnel t1; the chaser's cage row is read 0.3 s before
\* the chased animal's tunnel row.  Each episode is in its own hour.
Episode(i) ==
    LET chased == animal_ids[((i - 1) % Len(animal_ids)) + 1]
        chaser == animal_ids[(i % Len(animal_ids)) + 1]
        T == 100 * i
        row(a, p, t) ==
            [animal_id |-> a, position |-> p, datetime |-> t, tg |-> 1,
             hour |-> i % 24]
    IN  << row(chased, "c1", T), row(chaser, "c1", T + 2),
           row(chased, "t1", T + 5), row(chaser, "t1", T + 9) >>

\* main_df of the recording with n chase episodes, in chronological order;
\* tg stands for the (phase, day, phase_count) columns
RECURSIVE MainRec(_)
MainRec(n) == IF n = 0 THEN <<>> ELSE MainRec(n - 1) \o Episode(n)

\* cfg["positions"]: the cages and the tunnels
positions == cages \cup tunnels

\* in padded_df a tunnel is written with the direction of the crossing
tunnel_directions == {"c1_c2", "c2_c1"}

\* one row of padded_df: the animal was at the position from start to end;
\* datetime is the end of the interval, time_spent its length
PaddedRow(a, p, start, end) ==
    [animal_id |-> a, position |-> p, datetime |-> end,
     time_spent |-> end - start, phase |-> get_phase(end),
     day |-> get_day(end), phase_count |-> get_phase_count(end)]

\* the padded rows of one chase episode: the two animals share cage c1 for
\* 3 s before they cross the tunnel
PaddedEpisode(i) ==
    LET chased == animal_ids[((i - 1) % Len(animal_ids)) + 1]
        chaser == animal_ids[(i % Len(animal_ids)) + 1]
        T == 100 * i
    IN  { PaddedRow(chased, "c1", T - 40, T),
          PaddedRow(chaser, "c1", T - 30, T + 2),
          PaddedRow(chased, "c1_c2", T, T + 5),
          PaddedRow(chaser, "c1_c2", T + 2, T + 9) }

\* padded_df of the recording with n chase episodes
PaddedRec(n) == UNION {PaddedEpisode(i) : i \in 1..n}

\* one row of binary_df: the animal was in the cage at the moment
BinaryRow(t, a, c) == [datetime |-> t, animal_id |-> a, cage |-> c]

\* the binary rows of one chase episode: the chased animal is in cage c1
\* alone for a second, then with the chaser
BinaryEpisode(i) ==
    LET chased == animal_ids[((i - 1) % Len(animal_ids)) + 1]
        chaser == animal_ids[(i % Len(animal_ids)) + 1]
        T == 100 * i
    IN  { BinaryRow(T - 4 * Second, chased, "c1"),
          BinaryRow(T - 3 * Second, chased, "c1"),
          BinaryRow(T - 3 * Second, chaser, "c1") }

\* binary_df of the recording with n chase episodes; the recording starts
\* with A in cage c2
BinaryRec(n) ==
    {BinaryRow(0, "A", "c2")} \cup UNION {BinaryEpisode(i) : i \in 1..n}

\* no animal is in two cages at once
ValidBinary(b) ==
    \A x, y \in b : (x # y /\ x.animal_id = y.animal_id) =>
                        x.datetime # y.datetime

\* The moments the binary inputs are made of: two seconds of hour 17 of day
\* 0 (light phase), one of hour 19 (dark phase, hour 18 has none), and one
\* of hour 1 of day 1 (the same dark phase).
BinaryMoments ==
    { 17 * Hour + 10 * Second, 17 * Hour + 11 * Second, 19 * Hour,
      25 * Hour + 5 * Second }

\* every animal is seen in cage c1, and A in cage c2 as well
BinaryUniverse ==
    {BinaryRow(t, a, "c1") : t \in BinaryMoments, a \in Animals}
        \cup {BinaryRow(t, "A", "c2") : t \in BinaryMoments}

\* binary_df inputs of 1 to MaxBinary rows
BinaryInputs ==
    {b \in SubsetsUpTo(BinaryUniverse, MaxBinary) : b # {} /\ ValidBinary(b)}

\* phase_durations of a recording: one row for every phase occurrence in
\* it, with the length of the phase on the clock
PhaseDurations(padded) ==
    LET light == (dark_phase_start - light_phase_start) * Hour
    IN  {[phase |-> x.phase, phase_count |-> x.phase_count,
          duration_seconds |-> IF x.phase = "light_phase" THEN light
                               ELSE Day - light]
         : x \in padded}

\* the raw tables the bootstrap writes for the recording with n episodes
RawStore(n) ==
    [k \in Keys |->
        CASE k = "main_df" -> File(MainRec(n))
          [] k = "padded_df" -> File(PaddedRec(n))
          [] k = "binary_df" -> File(BinaryRec(n))
          [] k = "phase_durations" -> File(PhaseDurations(PaddedRec(n)))
          [] OTHER -> NoFile]

\* no animal is at two positions at once
ValidPadded(p) ==
    \A x, y \in p :
        (x # y /\ x.animal_id = y.animal_id) =>
            \/ x.datetime <= y.datetime - y.time_spent
            \/ y.datetime <= x.datetime - x.time_spent

\* The visits the padded inputs are made of.  They start at 20:00 of day 0,
\* or 6 h later, in the same dark phase on day 1 (cage c1 only).  A and B
\* overlap by exactly 2 s, by 3 s, or touch; C overlaps A by 5 s and 6 s.
\* A crosses the tunnel in either direction.
PaddedUniverse ==
    LET visits == { <<"A", 0, 50>>, <<"A", 50, 110>>, <<"B", 30, 80>>,
                    <<"B", 110, 130>>, <<"C", 0, 110>> }
        row(v, p, T) == PaddedRow(v[1], p, T + v[2], T + v[3])
    IN  {row(v, p, 20 * Hour) : v \in visits, p \in cages \cup {"c1_c2"}}
          \cup {row(v, "c2_c1", 20 * Hour) : v \in {x \in visits : x[1] = "A"}}
          \cup {row(v, "c1", 26 * Hour) : v \in visits}

\* padded_df inputs of at most MaxPadded rows
PaddedInputs ==
    {p \in SubsetsUpTo(PaddedUniverse, MaxPadded) : ValidPadded(p)}

EmptyStore == [k \in Keys |-> NoFile]

(***************************************************************************)
(* calculate_chasings and get_matches                                      *)
(***************************************************************************)
Max(S) == CHOOSE x \in S : \A y \in S : y <= x

\* shift(1).over("animal_id"): the index of the animal's preceding row, 0
\* (null) for its first row
PrevRow(lf, j) ==
    LET before == {k \in 1..(j - 1) : lf[k].animal_id = lf[j].animal_id}
    IN  IF before = {} THEN 0 ELSE Max(before)

\* is_between with closed="both"
is_between_closed(x, window) == window[1] <= x /\ x <= window[2]

\* Series.is_between(lo, hi, closed="none")
is_between(x, window) == window[1] < x /\ x < window[2]

\* the filter of the chased-chasing join: row i of chased, row j of chasing
IsChase(lf, i, j, window) ==
    /\ lf[i].position \in tunnels
    /\ lf[i].tg = lf[j].tg /\ lf[i].hour = lf[j].hour
    /\ lf[i].animal_id # lf[j].animal_id
    /\ lf[i].position = lf[j].position
    /\ PrevRow(lf, j) # 0
    /\ lf[PrevRow(lf, j)].position \in cages
    /\ is_between(lf[i].datetime - lf[PrevRow(lf, j)].datetime, window)
    /\ lf[i].datetime < lf[j].datetime

\* the joined and filtered frame, one row per chase, in join order
Intermediate(lf, window) ==
    LET N == Len(lf)
        pair(p) == << ((p - 1) \div N) + 1, ((p - 1) % N) + 1 >>
        all == [p \in 1..(N * N) |-> pair(p)]
        kept == SelectSeq(all, LAMBDA q : IsChase(lf, q[1], q[2], window))
    IN  [k \in 1..Len(kept) |->
            [animal_id |-> lf[kept[k][1]].animal_id,
             animal_id_chasing |-> lf[kept[k][2]].animal_id,
             datetime |-> lf[kept[k][1]].datetime,
             datetime_chasing |-> lf[kept[k][2]].datetime,
             position |-> lf[kept[k][1]].position,
             tg |-> lf[kept[k][1]].tg,
             hour |-> lf[kept[k][1]].hour]]

\* the match table stamped with the chased animal's row
Matches_stamps_chased(lf) ==
    [k \in 1..Len(lf) |->
        [loser |-> lf[k].animal_id, winner |-> lf[k].animal_id_chasing,
         datetime |-> lf[k].datetime]]

\* the match table of a joined frame
Matches(lf) ==
    [k \in 1..Len(lf) |->
        [loser |-> lf[k].animal_id, winner |-> lf[k].animal_id_chasing,
         datetime |-> lf[k].datetime_chasing]]

\* get_matches without its `if save_data` guard
get_matches_always_saves(fs, lf, save_data) ==
    sink_parquet(fs, "match_df", Matches(lf))

\* get_matches(lf, results_path, save_data): the results directory afterwards
get_matches(fs, lf, save_data) ==
    IF save_data THEN sink_parquet(fs, "match_df", Matches(lf)) ELSE fs

\* group_by(...).len(name="chasings"), renamed
ChasingCounts(lf) ==
    { [tg |-> lf[k].tg, hour |-> lf[k].hour,
       chaser |-> lf[k].animal_id_chasing, chased |-> lf[k].animal_id,
       chasings |->
          Cardinality({m \in 1..Len(lf) :
              /\ lf[m].tg = lf[k].tg /\ lf[m].hour = lf[k].hour
              /\ lf[m].animal_id_chasing = lf[k].animal_id_chasing
              /\ lf[m].animal_id = lf[k].animal_id})]
      : k \in 1..Len(lf) }

\* the join keeping one row of the counts for a grid row
DensifyChasings_one_match(counts) ==
    LET time_grid == {c.tg : c \in counts}
        all_pairs == {p \in Animals \X Animals : p[1] # p[2]}
        right(g, p) ==
            {c \in counts : c.tg = g /\ c.chaser = p[1] /\ c.chased = p[2]}
        joined(g, p) ==
            IF right(g, p) = {}
            THEN {[tg |-> g, hour |-> 0, chaser |-> p[1], chased |-> p[2],
                   chasings |-> 0]}
            ELSE {CHOOSE c \in right(g, p) : TRUE}
    IN  UNION {joined(g, p) : g \in time_grid, p \in all_pairs}

\* the left join of the (time group x ordered pair) grid with the counts on
\* phase, day, phase_count, chaser, chased, nulls filled with 0
DensifyChasings(counts) ==
    LET time_grid == {c.tg : c \in counts}
        all_pairs == {p \in Animals \X Animals : p[1] # p[2]}
        right(g, p) ==
            {c \in counts : c.tg = g /\ c.chaser = p[1] /\ c.chased = p[2]}
        joined(g, p) ==
            IF right(g, p) = {}
            THEN {[tg |-> g, hour |-> 0, chaser |-> p[1], chased |-> p[2],
                   chasings |-> 0]}
            ELSE right(g, p)
    IN  UNION {joined(g, p) : g \in time_grid, p \in all_pairs}

\* the cache check without the overwrite test
CacheCheck_ignores_overwrite(st, key, overwrite) == load_ecohab_data(st, key)

\* None if overwrite else auxfun.load_ecohab_data(config_path, key)
CacheCheck(st, key, overwrite) ==
    IF overwrite THEN NoneVal ELSE load_ecohab_data(st, key)

\* the save without its `if save_data` guard
Save_always(fs, key, t, save_data) == sink_parquet(fs, key, t)

\* if save_data: table.sink_parquet(results_path / f"{key}.parquet", ...)
Save(fs, key, t, save_data) ==
    IF save_data THEN sink_parquet(fs, key, t) ELSE fs

calculate_chasings(st, overwrite, save_data, chasing_time_window) ==
    LET fs == Open(st)
        chasings == CacheCheck(st, "chasings_df", overwrite)
        lf == load_ecohab_data(st, "main_df")
        intermediate == Intermediate(lf.data, chasing_time_window)
        fs1 == get_matches(fs, intermediate, save_data)
        densified == DensifyChasings(ChasingCounts(intermediate))
    IN  IF chasings.kind = "LazyFrame" THEN {Hit(fs, chasings)}
        ELSE IF lf.kind = "None" THEN {Raise(fs, {"main_df"})}
        ELSE {Return(Save(fs1, "chasings_df", densified, save_data),
                     LazyFrame(densified), densified, {"main_df"})}

(***************************************************************************)
(* calculate_ranking                                                       *)
(***************************************************************************)
\* PlackettLuce(): the default prior of openskill, mu = 25, sigma = 25 / 3
DefaultMu == 2500
DefaultSigma == 833
Rating(mu, sigma) == [mu |-> mu, sigma |-> sigma]

\* model.rating() for every player
DefaultRanking == [a \in Animals |-> Rating(DefaultMu, DefaultSigma)]

\* rating.ordinal(): mu - 3 sigma
ordinal(r) == r.mu - 3 * r.sigma

\* model.rate([[loser], [winner]], ranks=[1, 0]) of the openskill library:
\* <<new loser rating, new winner rating>>.  The library's arithmetic is
\* outside the repository; this keeps what it guarantees: the winner's
\* mean rises, the loser's falls, by more the less certain the rating, and
\* neither sigma grows (limit_sigma=True).
rate(loser, winner) ==
    << Rating(loser.mu - loser.sigma \div 4, loser.sigma - loser.sigma \div 20),
       Rating(winner.mu + winner.sigma \div 4,
              winner.sigma - winner.sigma \div 20) >>

\* the orders DataFrame.sort("datetime") can give: sort() does not keep the
\* order of rows with equal keys unless maintain_order=True
SortedOrders(df) ==
    LET n == Len(df)
        perms == {f \in [1..n -> 1..n] : \A i, j \in 1..n : i # j => f[i] # f[j]}
        sorted == {f \in perms :
                      \A i \in 1..(n - 1) : df[f[i]].datetime <= df[f[i + 1]].datetime}
    IN  {[i \in 1..n |-> df[f[i]]] : f \in sorted}

\* a snapshot of the first animal only
Snapshot_of_first(ranking, dtime) ==
    [i \in {1} |->
        [animal_id |-> animal_ids[i], mu |-> ranking[animal_ids[i]].mu,
         sigma |-> ranking[animal_ids[i]].sigma,
         ordinal |-> ordinal(ranking[animal_ids[i]]), datetime |-> dtime]]

\* the rows appended for one match: one per animal, in the dict's order
Snapshot(ranking, dtime) ==
    [i \in DOMAIN animal_ids |->
        [animal_id |-> animal_ids[i], mu |-> ranking[animal_ids[i]].mu,
         sigma |-> ranking[animal_ids[i]].sigma,
         ordinal |-> ordinal(ranking[animal_ids[i]]), datetime |-> dtime]]

\* the body of the loop with the sigma of the animals not in the match
\* lowered too
RateMatch_decays_others(s, m) ==
    LET new_ratings == rate(s.ranking[m.loser], s.ranking[m.winner])
        r1 == [s.ranking EXCEPT ![m.loser] = new_ratings[1]]
        r2 == [r1 EXCEPT ![m.winner] = new_ratings[2]]
        r3 == [a \in Animals |->
                  IF a \in {m.loser, m.winner} THEN r2[a]
                  ELSE Rating(r2[a].mu, r2[a].sigma - 1)]
    IN  [ranking |-> r3, rows |-> s.rows \o Snapshot(r3, m.datetime)]

\* the body of the loop over match_df.iter_rows() for one match
RateMatch(s, m) ==
    LET new_ratings == rate(s.ranking[m.loser], s.ranking[m.winner])
        r1 == [s.ranking EXCEPT ![m.loser] = new_ratings[1]]
        r2 == [r1 EXCEPT ![m.winner] = new_ratings[2]]
    IN  [ranking |-> r2, rows |-> s.rows \o Snapshot(r2, m.datetime)]

\* the whole loop: the ranking dict and the rows after the first k matches
RECURSIVE RateAll(_, _, _)
RateAll(ranking, match_df, k) ==
    IF k = 0 THEN [ranking |-> ranking, rows |-> <<>>]
    ELSE RateMatch(RateAll(ranking, match_df, k - 1), match_df[k])

\* the rest of calculate_ranking once match_df is sorted: the loop, the
\* frame of the rows, the save, and the return of the ranking dict.  A frame
\* built from no rows has no datetime column, so with_columns(get_phase,
\* get_day, get_hour) fails when sink_parquet evaluates it; without
\* save_data the frame is never evaluated.
RankMatches(fs, save_data, ranking, match_df) ==
    LET s == RateAll(ranking, match_df, Len(match_df))
        ranking_df == s.rows
        done(fs1) ==
            [Return(fs1, Dict(s.ranking), ranking_df, {"match_df"})
                EXCEPT !.init = ranking]
    IN  IF ~save_data THEN done(fs)
        ELSE IF ranking_df = <<>> THEN Raise(fs, {"match_df"})
        ELSE done(sink_parquet(fs, "ranking", ranking_df))

\* calculate_ranking taking a missing match_df for an empty one
calculate_ranking_defaults_match_df(st, overwrite, save_data, prev_ranking) ==
    LET fs == Open(st)
        cached == CacheCheck(st, "ranking", overwrite)
        match_df == load_ecohab_data(st, "match_df")
        rows == IF match_df.kind = "None" THEN <<>> ELSE match_df.data
    IN  IF cached.kind = "LazyFrame" THEN {Hit(fs, cached)}
        ELSE IF prev_ranking.kind = "dict" THEN {Raise(fs, {})}
        ELSE {RankMatches(fs, save_data, DefaultRanking, sorted) :
                 sorted \in SortedOrders(rows)}

\* prev_ranking is None, a dict or a frame of (animal_id, mu, sigma) rows.
\* A dict has no iter_rows(), so the seeded branch raises; any other value
\* takes the default branch.
calculate_ranking(st, overwrite, save_data, prev_ranking) ==
    LET fs == Open(st)
        cached == CacheCheck(st, "ranking", overwrite)
        match_df == load_ecohab_data(st, "match_df")
    IN  IF cached.kind = "LazyFrame" THEN {Hit(fs, cached)}
        ELSE IF prev_ranking.kind = "dict" THEN {Raise(fs, {})}
        ELSE IF match_df.kind = "None" THEN {Raise(fs, {"match_df"})}
        ELSE {RankMatches(fs, save_data, DefaultRanking, sorted) :
                 sorted \in SortedOrders(match_df.data)}

(***************************************************************************)
(* calculate_cage_occupancy, calculate_activity, calculate_time_alone      *)
(***************************************************************************)
Min(S) == CHOOSE x \in S : \A y \in S : x <= y

\* auxfun.get_animal_position_grid(cfg, which): every animal with every
\* cage, or with every position
get_animal_position_grid(which) ==
    Animals \X (IF which = "cages" THEN cages ELSE positions)

\* the range without its last hour
datetime_range_without_end(start, end) ==
    {start + k * Hour : k \in 0..((end - start) \div Hour - 1)}

\* pl.datetime_range(start, end, "1h"): start, start + 1h, ... up to end
datetime_range(start, end) ==
    {start + k * Hour : k \in 0..((end - start) \div Hour)}

\* group_by(day, hour, cage, animal_id).agg(pl.len() as time_spent)
OccupancyCounts(binary_lf) ==
    LET key(x) == [day |-> get_day(x.datetime), hour |-> get_hour(x.datetime),
                   cage |-> x.cage, animal_id |-> x.animal_id]
    IN  {[day |-> k.day, hour |-> k.hour, cage |-> k.cage,
          animal_id |-> k.animal_id,
          time_spent |-> Cardinality({x \in binary_lf : key(x) = k})]
         : k \in {key(x) : x \in binary_lf}}

\* the hours from the truncated minimum to the truncated maximum datetime
\* crossed with the animals and cages, left-joined with the counts on day,
\* hour, cage, animal_id, nulls filled with 0
CageOccupancy(binary_lf) ==
    LET start == truncate_1h(Min({x.datetime : x \in binary_lf}))
        end == truncate_1h(Max({x.datetime : x \in binary_lf}))
        time_lf == {[hour |-> get_hour(t), day |-> get_day(t)]
                       : t \in datetime_range(start, end)}
        agg == OccupancyCounts(binary_lf)
        right(g, ac) ==
            {r \in agg : /\ r.day = g.day /\ r.hour = g.hour
                         /\ r.animal_id = ac[1] /\ r.cage = ac[2]}
        rows(g, ac) ==
            IF right(g, ac) = {}
            THEN {[day |-> g.day, hour |-> g.hour, cage |-> ac[2],
                   animal_id |-> ac[1], time_spent |-> 0]}
            ELSE right(g, ac)
    IN  UNION {rows(g, ac) :
                  g \in time_lf, ac \in get_animal_position_grid("cages")}

\* auxfun.remove_tunnel_directionality: both directions of a crossing are
\* the one tunnel
remove_tunnel_directionality(p) == IF p \in tunnel_directions THEN "t1" ELSE p

RECURSIVE SumTimeSpent(_)
SumTimeSpent(rows) ==
    IF rows = {} THEN 0
    ELSE LET x == CHOOSE x \in rows : TRUE
         IN  x.time_spent + SumTimeSpent(rows \ {x})

\* group_by(phase, day, phase_count, position, animal_id): sum of
\* time_spent as time_in_position, len as visits_to_position
ActivityCounts(padded_lf) ==
    LET key(x) == [phase |-> x.phase, day |-> x.day,
                   phase_count |-> x.phase_count,
                   position |-> remove_tunnel_directionality(x.position),
                   animal_id |-> x.animal_id]
        group(k) == {x \in padded_lf : key(x) = k}
    IN  {[phase |-> k.phase, day |-> k.day, phase_count |-> k.phase_count,
          position |-> k.position, animal_id |-> k.animal_id,
          time_in_position |-> SumTimeSpent(group(k)),
          visits_to_position |-> Cardinality(group(k))]
         : k \in {key(x) : x \in padded_lf}}

\* the join that keeps only the rows of the aggregate
DensifyActivity_inner(per_position_lf) == per_position_lf

\* the time groups of the aggregate crossed with the animals and positions,
\* left-joined with the aggregate on all five keys, nulls filled with 0
DensifyActivity(per_position_lf) ==
    LET time_grid == {<<r.phase, r.day, r.phase_count>> : r \in per_position_lf}
        right(g, ap) ==
            {r \in per_position_lf :
                /\ <<r.phase, r.day, r.phase_count>> = g
                /\ r.animal_id = ap[1] /\ r.position = ap[2]}
        rows(g, ap) ==
            IF right(g, ap) = {}
            THEN {[phase |-> g[1], day |-> g[2], phase_count |-> g[3],
                   position |-> ap[2], animal_id |-> ap[1],
                   time_in_position |-> 0, visits_to_position |-> 0]}
            ELSE right(g, ap)
    IN  UNION {rows(g, ap) :
                  g \in time_grid, ap \in get_animal_position_grid("positions")}

\* the filter that keeps every moment of a cage
AloneFilter_any(n) == n >= 1

\* .filter(pl.col("n") == 1)
AloneFilter(n) == n = 1

\* group_by(datetime, cage): n = len, the first animal_id; the moments that
\* pass the filter, with their animal, phase and day; then
\* group_by(phase, day, animal_id, cage).agg(pl.len() as time_alone)
AloneCounts(binary_df) ==
    LET n(x) == Cardinality({y \in binary_df :
                    y.datetime = x.datetime /\ y.cage = x.cage})
        alone == {x \in binary_df : AloneFilter(n(x))}
        key(x) == [phase |-> get_phase(x.datetime), day |-> get_day(x.datetime),
                   animal_id |-> x.animal_id, cage |-> x.cage]
    IN  {[phase |-> k.phase, day |-> k.day, animal_id |-> k.animal_id,
          cage |-> k.cage,
          time_alone |-> Cardinality({x \in alone : key(x) = k})]
         : k \in {key(x) : x \in alone}}

\* the (day, phase) of binary_df crossed with the animals and cages,
\* left-joined with the counts on phase, day, animal_id, cage, nulls filled
\* with 0
TimeAlone(binary_df) ==
    LET time_lf == {[day |-> get_day(x.datetime), phase |-> get_phase(x.datetime)]
                       : x \in binary_df}
        time_alone == AloneCounts(binary_df)
        right(g, ac) ==
            {r \in time_alone : /\ r.phase = g.phase /\ r.day = g.day
                                /\ r.animal_id = ac[1] /\ r.cage = ac[2]}
        rows(g, ac) ==
            IF right(g, ac) = {}
            THEN {[phase |-> g.phase, day |-> g.day, animal_id |-> ac[1],
                   cage |-> ac[2], time_alone |-> 0]}
            ELSE right(g, ac)
    IN  UNION {rows(g, ac) :
                  g \in time_lf, ac \in get_animal_position_grid("cages")}

\* each stage below: the cache check; on a miss the upstream loads, where a
\* frame method called on None (no file) raises; the table; the save
calculate_cage_occupancy(st, overwrite, save_data) ==
    LET fs == Open(st)
        key == "cage_occupancy"
        cage_occupancy == CacheCheck(st, key, overwrite)
        binary_lf == load_ecohab_data(st, "binary_df")
        t == CageOccupancy(binary_lf.data)
    IN  IF cage_occupancy.kind = "LazyFrame" THEN {Hit(fs, cage_occupancy)}
        ELSE IF binary_lf.kind = "None" THEN {Raise(fs, {"binary_df"})}
        ELSE {Return(Save(fs, key, t, save_data), LazyFrame(t), t,
                     {"binary_df"})}

\* padded_df goes through auxfun.remove_tunnel_directionality before the
\* group_by; a None there raises like any frame method on None
calculate_activity(st, overwrite, save_data) ==
    LET fs == Open(st)
        key == "activity_df"
        time_per_position_lf == CacheCheck(st, key, overwrite)
        padded_lf == load_ecohab_data(st, "padded_df")
        t == DensifyActivity(ActivityCounts(padded_lf.data))
    IN  IF time_per_position_lf.kind = "LazyFrame"
        THEN {Hit(fs, time_per_position_lf)}
        ELSE IF padded_lf.kind = "None" THEN {Raise(fs, {"padded_df"})}
        ELSE {Return(Save(fs, key, t, save_data), LazyFrame(t), t,
                     {"padded_df"})}

calculate_time_alone(st, overwrite, save_data) ==
    LET fs == Open(st)
        key == "time_alone"
        time_alone == CacheCheck(st, key, overwrite)
        binary_df == load_ecohab_data(st, "binary_df")
        t == TimeAlone(binary_df.data)
    IN  IF time_alone.kind = "LazyFrame" THEN {Hit(fs, time_alone)}
        ELSE IF binary_df.kind = "None" THEN {Raise(fs, {"binary_df"})}
        ELSE {Return(Save(fs, key, t, save_data), LazyFrame(t), t,
                     {"binary_df"})}

(***************************************************************************)
(* calculate_pairwise_meetings                                             *)
(***************************************************************************)
\* the place of an animal in cfg["animal_ids"], the order of the animal_id
\* categories
AnimalIndex(a) == CHOOSE i \in DOMAIN animal_ids : animal_ids[i] = a

\* the rows at a cage, with event_start = datetime - time_spent and
\* datetime renamed to event_end
CageIntervals(padded_df) ==
    {[phase |-> r.phase, day |-> r.day, phase_count |-> r.phase_count,
      position |-> r.position, animal_id |-> r.animal_id,
      event_start |-> r.datetime - r.time_spent, event_end |-> r.datetime]
     : r \in {x \in padded_df : x.position \in cages}}

\* min(event_end, event_end_2) - max(event_start, event_start_2), in
\* seconds rounded to 3 decimals: a whole number of tenths of a second is
\* left as it is
overlap_duration(l, r) ==
    Min({l.event_end, r.event_end}) - Max({l.event_start, r.event_start})

\* the filter that also keeps an overlap equal to minimum_time
OverlapFilter_keeps_equal(d, minimum_time) == d >= minimum_time

\* .filter(pl.col("overlap_duration") > minimum_time)
OverlapFilter(d, minimum_time) == d > minimum_time

\* the self-join on phase, day, phase_count, position, kept where
\* animal_id < animal_id_2 and the overlap passes the filter
joined(lf, minimum_time) ==
    {[phase |-> q[1].phase, day |-> q[1].day,
      phase_count |-> q[1].phase_count, position |-> q[1].position,
      animal_id |-> q[1].animal_id, animal_id_2 |-> q[2].animal_id,
      event_start |-> q[1].event_start, event_end |-> q[1].event_end,
      event_start_2 |-> q[2].event_start, event_end_2 |-> q[2].event_end,
      overlap_duration |-> overlap_duration(q[1], q[2])]
     : q \in {q \in lf \X lf :
                /\ q[1].phase = q[2].phase /\ q[1].day = q[2].day
                /\ q[1].phase_count = q[2].phase_count
                /\ q[1].position = q[2].position
                /\ AnimalIndex(q[1].animal_id) < AnimalIndex(q[2].animal_id)
                /\ OverlapFilter(overlap_duration(q[1], q[2]), minimum_time)}}

RECURSIVE SumOverlap(_)
SumOverlap(rows) ==
    IF rows = {} THEN 0
    ELSE LET x == CHOOSE x \in rows : TRUE
         IN  x.overlap_duration + SumOverlap(rows \ {x})

\* group_by(phase, day, phase_count, position, animal_id, animal_id_2):
\* sum of overlap_duration as time_together, len as pairwise_encounters
Meetings(j) ==
    LET key(x) == [phase |-> x.phase, day |-> x.day,
                   phase_count |-> x.phase_count, position |-> x.position,
                   animal_id |-> x.animal_id, animal_id_2 |-> x.animal_id_2]
        group(k) == {x \in j : key(x) = k}
    IN  {[phase |-> k.phase, day |-> k.day, phase_count |-> k.phase_count,
          position |-> k.position, animal_id |-> k.animal_id,
          animal_id_2 |-> k.animal_id_2,
          time_together |-> SumOverlap(group(k)),
          pairwise_encounters |-> Cardinality(group(k))]
         : k \in {key(x) : x \in j}}

\* every pair of animals, in both orders and with itself
all_pairs_product == Animals \X Animals

\* itertools.combinations(cfg["animal_ids"], 2)
all_pairs ==
    {<<animal_ids[i], animal_ids[j]>> :
        i \in DOMAIN animal_ids, j \in DOMAIN animal_ids} \cap
    {p \in Animals \X Animals : AnimalIndex(p[1]) < AnimalIndex(p[2])}

\* the left join of (time groups of the aggregate) x all_pairs x
\* cfg["positions"] with the aggregate, nulls filled with 0
DensifyMeetings(pairwise_meetings) ==
    LET time_grid == {<<r.phase, r.day, r.phase_count>> : r \in pairwise_meetings}
        right(g, pr, pos) ==
            {r \in pairwise_meetings :
                /\ <<r.phase, r.day, r.phase_count>> = g
                /\ r.animal_id = pr[1] /\ r.animal_id_2 = pr[2]
                /\ r.position = pos}
        rows(g, pr, pos) ==
            IF right(g, pr, pos) = {}
            THEN {[phase |-> g[1], day |-> g[2], phase_count |-> g[3],
                   position |-> pos, animal_id |-> pr[1],
                   animal_id_2 |-> pr[2], time_together |-> 0,
                   pairwise_encounters |-> 0]}
            ELSE right(g, pr, pos)
    IN  UNION {rows(g, pr, pos) :
                  g \in time_grid, pr \in all_pairs, pos \in positions}

\* the cache check tests isinstance(pairwise_meetings, pl.DataFrame), and
\* load_ecohab_data returns a LazyFrame
calculate_pairwise_meetings(st, overwrite, save_data, minimum_time) ==
    LET fs == Open(st)
        key == "pairwise_meetings"
        pairwise_meetings == CacheCheck(st, key, overwrite)
        padded_df == load_ecohab_data(st, "padded_df")
        t == DensifyMeetings(Meetings(
                 joined(CageIntervals(padded_df.data), minimum_time)))
    IN  IF pairwise_meetings.kind = "DataFrame"
        THEN {Hit(fs, pairwise_meetings)}
        ELSE IF padded_df.kind = "None" THEN {Raise(fs, {"padded_df"})}
        ELSE {Return(Save(fs, key, t, save_data), LazyFrame(t), t,
                     {"padded_df"})}

(***************************************************************************)
(* calculate_incohort_sociability                                          *)
(***************************************************************************)
\* the self-join of activity_df on phase_count, phase, position with suffix
\* "_2", kept where animal_id < animal_id_2; day is not a join key, so the
\* right side's day comes along as day_2
estimated_proportion_together(activity_df) ==
    {[phase |-> q[1].phase, day |-> q[1].day,
      phase_count |-> q[1].phase_count, position |-> q[1].position,
      animal_id |-> q[1].animal_id,
      time_in_position |-> q[1].time_in_position,
      day_2 |-> q[2].day, animal_id_2 |-> q[2].animal_id,
      time_in_position_2 |-> q[2].time_in_position]
     : q \in {q \in activity_df \X activity_df :
                /\ q[1].phase_count = q[2].phase_count
                /\ q[1].phase = q[2].phase
                /\ q[1].position = q[2].position
                /\ AnimalIndex(q[1].animal_id) < AnimalIndex(q[2].animal_id)}}

\* on=core_columns + ["position"]
JoinEstimated(x, e) ==
    /\ e.phase = x.phase /\ e.day = x.day /\ e.phase_count = x.phase_count
    /\ e.animal_id = x.animal_id /\ e.animal_id_2 = x.animal_id_2
    /\ e.position = x.position

\* pairwise_meetings left-joined with the estimate: one row per match; a
\* row without a match has null time_in_position columns (matched = FALSE)
JoinedTerms(time_together_df, estimate) ==
    LET term(x, e, matched) ==
            [phase |-> x.phase, day |-> x.day, phase_count |-> x.phase_count,
             animal_id |-> x.animal_id, animal_id_2 |-> x.animal_id_2,
             position |-> x.position, time_together |-> x.time_together,
             matched |-> matched, day_2 |-> e.day_2,
             time_in_position |-> e.time_in_position,
             time_in_position_2 |-> e.time_in_position_2]
        null(x) == [day_2 |-> x.day, time_in_position |-> 0,
                    time_in_position_2 |-> 0]
        matches(x) == {e \in estimate : JoinEstimated(x, e)}
    IN  UNION {IF matches(x) = {} THEN {term(x, null(x), FALSE)}
               ELSE {term(x, e, TRUE) : e \in matches(x)}
               : x \in time_together_df}

RECURSIVE SumValue(_)
SumValue(terms) ==
    IF terms = {} THEN 0
    ELSE LET x == CHOOSE x \in terms : TRUE
         IN  x.value + SumValue(terms \ {x})

\* a quotient num / duration^power, kept exact
Over(num, duration, power) ==
    [num |-> num, duration |-> duration, power |-> power]

\* the left join with phase_durations on phase_count, phase (one row per
\* phase occurrence); time_together / duration_seconds and chance =
\* time_in_position * time_in_position_2 / duration_seconds^2;
\* group_by(core_columns): sum of time_together as proportion_together,
\* sum of time_together - chance as sociability (a null term is skipped)
IncohortSociability(time_together_df, activity_df, phase_durations) ==
    LET terms == JoinedTerms(time_together_df,
                             estimated_proportion_together(activity_df))
        key(x) == [phase |-> x.phase, day |-> x.day,
                   phase_count |-> x.phase_count, animal_id |-> x.animal_id,
                   animal_id_2 |-> x.animal_id_2]
        group(k) == {x \in terms : key(x) = k}
        D(k) == (CHOOSE d \in phase_durations :
                    d.phase = k.phase /\ d.phase_count = k.phase_count
                ).duration_seconds
    IN  {[phase |-> k.phase, day |-> k.day, phase_count |-> k.phase_count,
          animal_id |-> k.animal_id, animal_id_2 |-> k.animal_id_2,
          proportion_together |->
              Over(SumValue({[row |-> x, value |-> x.time_together]
                                : x \in group(k)}), D(k), 1),
          sociability |->
              Over(SumValue({[row |-> x,
                              value |-> x.time_together * D(k)
                                  - x.time_in_position * x.time_in_position_2]
                                : x \in {y \in group(k) : y.matched}}),
                   D(k), 2)]
         : k \in {key(x) : x \in terms}}

calculate_incohort_sociability(st, overwrite, save_data) ==
    LET fs == Open(st)
        key == "incohort_sociability"
        incohort_sociability == CacheCheck(st, key, overwrite)
        phase_durations == load_ecohab_data(st, "phase_durations")
        time_together_df == load_ecohab_data(st, "pairwise_meetings")
        activity_df == load_ecohab_data(st, "activity_df")
        loads == {"phase_durations", "pairwise_meetings", "activity_df"}
        t == IncohortSociability(time_together_df.data, activity_df.data,
                                 phase_durations.data)
    IN  IF incohort_sociability.kind = "LazyFrame"
        THEN {Hit(fs, incohort_sociability)}
        ELSE IF \/ activity_df.kind = "None"
                \/ time_together_df.kind = "None"
                \/ phase_durations.kind = "None"
             THEN {Raise(fs, loads)}
        ELSE {Return(Save(fs, key, t, save_data), LazyFrame(t), t, loads)}

(***************************************************************************)
(* Direct stage calls                                                      *)
(***************************************************************************)
\* the values the stage-specific options are drawn from
ChasingWindows == {<<1, 12>>, <<1, 3>>}
MinimumTimes == {20, 50}
SeedRanking == [a \in Animals |-> Rating(3000, 500)]
PrevRankings == {NoneVal, Dict(SeedRanking), DataFrame(SeedRanking)}

NoCall ==
    [stage |-> "none", overwrite |-> FALSE, save_data |-> FALSE, opt |-> <<>>,
     before |-> NoFile, outcome |-> "none", ret |-> NoneVal,
     table |-> NoneVal, init |-> <<>>, loads |-> {}, writes |-> {}]

\* the call of a stage with result r, as the caller saw it; before is the
\* stage's own file as it was when the call was made
CallRecord(key, overwrite, save_data, opt, r) ==
    [stage |-> key, overwrite |-> overwrite, save_data |-> save_data,
     opt |-> opt, before |-> store[key], outcome |-> r.outcome,
     ret |-> r.ret, table |-> r.table, init |-> r.init, loads |-> r.loads,
     writes |-> r.writes]

Called(key, overwrite, save_data, opt, r) ==
    /\ store' = r.store
    /\ call' = CallRecord(key, overwrite, save_data, opt, r)
    /\ UNCHANGED <<drv, status, hist, pages, projects>>

CallCageOccupancy ==
    \E overwrite, save_data \in BOOLEAN :
        \E r \in calculate_cage_occupancy(store, overwrite, save_data) :
            Called("cage_occupancy", overwrite, save_data, <<>>, r)

CallActivity ==
    \E overwrite, save_data \in BOOLEAN :
        \E r \in calculate_activity(store, overwrite, save_data) :
            Called("activity_df", overwrite, save_data, <<>>, r)

CallChasings ==
    \E overwrite, save_data \in BOOLEAN, w \in ChasingWindows :
        \E r \in calculate_chasings(store, overwrite, save_data, w) :
            Called("chasings_df", overwrite, save_data, <<w>>, r)

CallRanking ==
    \E overwrite, save_data \in BOOLEAN, prev \in PrevRankings :
        \E r \in calculate_ranking(store, overwrite, save_data, prev) :
            Called("ranking", overwrite, save_data, <<prev>>, r)

CallPairwiseMeetings ==
    \E overwrite, save_data \in BOOLEAN, m \in MinimumTimes :
        \E r \in calculate_pairwise_meetings(store, overwrite, save_data, m) :
            Called("pairwise_meetings", overwrite, save_data, <<m>>, r)

CallIncohortSociability ==
    \E overwrite, save_data \in BOOLEAN :
        \E r \in calculate_incohort_sociability(store, overwrite, save_data) :
            Called("incohort_sociability", overwrite, save_data, <<>>, r)

CallTimeAlone ==
    \E overwrite, save_data \in BOOLEAN :
        \E r \in calculate_time_alone(store, overwrite, save_data) :
            Called("time_alone", overwrite, save_data, <<>>, r)

(***************************************************************************)
(* The pipeline driver: start_analysis                                     *)
(***************************************************************************)
\* the steps with ranking listed before chasings_df
ANALYSIS_STEPS_ranking_first ==
    << "activity_df", "cage_occupancy", "ranking", "chasings_df",
       "pairwise_meetings", "incohort_sociability", "time_alone",
       "pairwise_meetings" >>

ANALYSIS_STEPS ==
    << "activity_df", "cage_occupancy", "chasings_df", "ranking",
       "pairwise_meetings", "incohort_sociability", "time_alone",
       "pairwise_meetings" >>

\* total_steps = len(ANALYSIS_STEPS)
total_steps == Len(ANALYSIS_STEPS)

\* the percentage of one step less than there are
Percent_of_fewer_steps(n) == (n * 100) \div (total_steps - 1)

\* int((n / total_steps) * 100)
Percent(n) == (n * 100) \div total_steps

\* the callback's position: idle, or in iteration i (counted from 0) before
\* the "Running" write (loop), before the stage call (call), before the
\* "Finished" write (finish), after the loop (load); or left by a return
\* (out is what it returned) or by an exception (raised)
Idle ==
    [pc |-> "idle", i |-> 0, min_time |-> <<>>, chasing_window |-> <<>>,
     out |-> <<>>, fresh |-> FALSE]
NoHist == [started |-> <<>>, finished |-> <<>>, writes |-> <<>>]

\* the values of the "Minimum time together" input: empty, or a number
MinTimeInputs == {<<>>, <<50>>}

\* the guard and the first write of start_analysis(n_clicks, config,
\* min_time, chasing_window); fresh records whether the run starts with no
\* derived artifact persisted.  call holds the last stage call of the run.
start_analysis ==
    /\ drv.pc \in {"idle", "returned", "raised"}
    /\ UNCHANGED <<pages, projects>>
    /\ \E n_clicks \in 0..1, config \in BOOLEAN, min_time \in MinTimeInputs,
          chasing_window \in ChasingWindows :
          IF n_clicks = 0 \/ ~config
          THEN /\ drv' = [Idle EXCEPT !.pc = "returned",
                                      !.out = <<"no_update", "no_update">>]
               /\ call' = NoCall
               /\ UNCHANGED <<store, status, hist>>
          ELSE /\ drv' = [pc |-> "loop", i |-> 0, min_time |-> min_time,
                          chasing_window |-> chasing_window, out |-> <<>>,
                          fresh |-> \A k \in DerivedKeys : ~Exists(store, k)]
               /\ status' = <<[percent |-> 0, msg |-> <<"Starting">>]>>
               /\ hist' = [started |-> <<>>, finished |-> <<>>,
                           writes |-> <<[percent |-> 0, msg |-> <<"Starting">>]>>]
               /\ call' = NoCall
               /\ UNCHANGED store

\* the "Running {name}..." write at the top of iteration i
SetRunning ==
    /\ drv.pc = "loop"
    /\ status' = <<[percent |-> Percent(drv.i),
                    msg |-> <<"Running", ANALYSIS_STEPS[drv.i + 1]>>]>>
    /\ hist' = [hist EXCEPT
                   !.writes = Append(@, [percent |-> Percent(drv.i),
                                 msg |-> <<"Running", ANALYSIS_STEPS[drv.i + 1]>>]),
                   !.started = Append(@, ANALYSIS_STEPS[drv.i + 1])]
    /\ drv' = [drv EXCEPT !.pc = "call"]
    /\ UNCHANGED <<store, call, pages, projects>>

\* func(config, ...) as the driver calls the stage called name: every
\* argument but the stage's own option is left at its default
StepCall(name, st, min_time, chasing_window) ==
    CASE name = "pairwise_meetings" ->
            calculate_pairwise_meetings(st, FALSE, TRUE,
                IF min_time # <<>> THEN min_time[1] ELSE 20)
      [] name = "chasings_df" ->
            calculate_chasings(st, FALSE, TRUE, chasing_window)
      [] name = "activity_df" -> calculate_activity(st, FALSE, TRUE)
      [] name = "cage_occupancy" -> calculate_cage_occupancy(st, FALSE, TRUE)
      [] name = "ranking" -> calculate_ranking(st, FALSE, TRUE, NoneVal)
      [] name = "incohort_sociability" ->
            calculate_incohort_sociability(st, FALSE, TRUE)
      [] name = "time_alone" -> calculate_time_alone(st, FALSE, TRUE)

\* a driver that catches the stage's exception and goes on
AfterCall_swallows_errors(r) == "finish"

\* where the callback is after the stage call with result r: there is no
\* try/except, so an exception of the stage leaves start_analysis
AfterCall(r) == IF r.outcome = "error" THEN "raised" ELSE "finish"

\* the stage call of iteration i
RunStep ==
    /\ drv.pc = "call"
    /\ LET name == ANALYSIS_STEPS[drv.i + 1]
       IN  \E r \in StepCall(name, store, drv.min_time, drv.chasing_window) :
              /\ store' = r.store
              /\ call' = CallRecord(name, FALSE, TRUE, <<>>, r)
              /\ drv' = [drv EXCEPT !.pc = AfterCall(r)]
    /\ UNCHANGED <<status, hist, pages, projects>>

\* the "Finished {name}" write that ends iteration i
SetFinished ==
    /\ drv.pc = "finish"
    /\ status' = <<[percent |-> Percent(drv.i + 1),
                    msg |-> <<"Finished", ANALYSIS_STEPS[drv.i + 1]>>]>>
    /\ hist' = [hist EXCEPT
                   !.writes = Append(@, [percent |-> Percent(drv.i + 1),
                                 msg |-> <<"Finished", ANALYSIS_STEPS[drv.i + 1]>>]),
                   !.finished = Append(@, ANALYSIS_STEPS[drv.i + 1])]
    /\ drv' = [drv EXCEPT !.i = @ + 1,
                          !.pc = IF drv.i + 1 = total_steps THEN "load"
                                 ELSE "loop"]
    /\ UNCHANGED <<store, call, pages, projects>>

\* time.sleep(0.5); get_project_data(config), which only reads; return
\* True, True
Finish ==
    /\ drv.pc = "load"
    /\ drv' = [drv EXCEPT !.pc = "returned", !.out = <<"True", "True">>]
    /\ UNCHANGED <<store, call, status, hist, pages, projects>>

(***************************************************************************)
(* Concurrent sessions of the analysis page                                *)
(***************************************************************************)
\* start_analysis is a regular callback (not background=True) and takes no
\* lock: the server runs it on the thread of the request, and requests of
\* different sessions are served at the same time.  A session's project is
\* its project-config-store; launch_cache is one cache for the process.
Pages == {"s1", "s2"}
Projects == {"P1", "P2"}

\* a session: the project of its store (<<>> when none is loaded), the
\* disabled property of its Analyze button, the position of its
\* start_analysis callback as in Idle, the status its callback wrote last
\* and the files it wrote
IdlePage ==
    [config |-> <<>>, disabled |-> TRUE, pc |-> "idle", i |-> 0,
     min_time |-> <<>>, chasing_window |-> <<>>, last |-> <<>>, wrote |-> {}]

NoSessions ==
    /\ pages = [s \in Pages |-> IdlePage]
    /\ projects = [p \in Projects |-> EmptyStore]

InProgress(s) == pages[s].pc \in {"loop", "call", "finish", "load"}

\* update_analysis_page(config): a project is loaded into the session's
\* store and the button is enabled
update_analysis_page ==
    /\ \E s \in Pages, p \in Projects :
          /\ pages[s].pc = "idle"
          /\ pages[s].config = <<>>
          /\ pages' = [pages EXCEPT ![s] = [@ EXCEPT !.config = <<p>>,
                                                     !.disabled = FALSE]]
    /\ UNCHANGED <<store, call, drv, status, hist, projects>>

\* a click on the enabled button: the guard and the first write of
\* start_analysis; the two inputs are left as the layout sets them (no
\* minimum time, the window 0.1 s to 1.2 s)
ClickAnalyze ==
    /\ \E s \in Pages, min_time \in {<<>>}, chasing_window \in {<<1, 12>>} :
          /\ pages[s].pc = "idle"
          /\ ~pages[s].disabled
          /\ pages[s].config # <<>>
          /\ status' = <<[percent |-> 0, msg |-> <<"Starting">>]>>
          /\ pages' = [pages EXCEPT ![s] =
                          [@ EXCEPT !.pc = "loop", !.i = 0,
                                    !.min_time = min_time,
                                    !.chasing_window = chasing_window,
                                    !.last = status']]
    /\ UNCHANGED <<store, call, drv, hist, projects>>

\* the "Running {name}..." write of a session's callback
PageSetRunning ==
    /\ \E s \in Pages :
          /\ pages[s].pc = "loop"
          /\ status' = <<[percent |-> Percent(pages[s].i),
                          msg |-> <<"Running", ANALYSIS_STEPS[pages[s].i + 1]>>]>>
          /\ pages' = [pages EXCEPT ![s] = [@ EXCEPT !.pc = "call",
                                                     !.last = status']]
    /\ UNCHANGED <<store, call, drv, hist, projects>>

\* the stage call of a session's callback, on the results directory of the
\* session's project
PageRunStep ==
    /\ \E s \in Pages :
          /\ pages[s].pc = "call"
          /\ LET name == ANALYSIS_STEPS[pages[s].i + 1]
                 p == pages[s].config[1]
             IN  \E r \in StepCall(name, projects[p], pages[s].min_time,
                                   pages[s].chasing_window) :
                    /\ projects' = [projects EXCEPT ![p] = r.store]
                    /\ pages' = [pages EXCEPT ![s] =
                           [@ EXCEPT !.pc = AfterCall(r),
                                     !.wrote = @ \cup {<<p, k>> : k \in r.writes}]]
    /\ UNCHANGED <<store, call, drv, status, hist>>

\* the "Finished {name}" write of a session's callback
PageSetFinished ==
    /\ \E s \in Pages :
          /\ pages[s].pc = "finish"
          /\ status' = <<[percent |-> Percent(pages[s].i + 1),
                          msg |-> <<"Finished", ANALYSIS_STEPS[pages[s].i + 1]>>]>>
          /\ pages' = [pages EXCEPT ![s] =
                          [@ EXCEPT !.i = @ + 1,
                                    !.pc = IF pages[s].i + 1 = total_steps
                                           THEN "load" ELSE "loop",
                                    !.last = status']]
    /\ UNCHANGED <<store, call, drv, hist, projects>>

\* return True, True: only now is the session's button disabled
PageFinish ==
    /\ \E s \in Pages :
          /\ pages[s].pc = "load"
          /\ pages' = [pages EXCEPT ![s] = [@ EXCEPT !.pc = "returned",
                                                     !.disabled = TRUE]]
    /\ UNCHANGED <<store, call, drv, status, hist, projects>>

(***************************************************************************)
(* Specifications                                                          *)
(***************************************************************************)
\* users calling the stages directly, in any order and with any options, in
\* a project whose raw tables are all there or all missing
Init ==
    /\ store \in {EmptyStore} \cup {RawStore(n) : n \in 0..MaxRec}
    /\ call = NoCall
    /\ drv = Idle
    /\ status = <<>>
    /\ hist = NoHist
    /\ NoSessions

Next ==
    \/ CallCageOccupancy
    \/ CallActivity
    \/ CallChasings
    \/ CallRanking
    \/ CallPairwiseMeetings
    \/ CallIncohortSociability
    \/ CallTimeAlone

Spec == Init /\ [][Next]_vars

\* calculate_pairwise_meetings called on a project whose padded_df is any
\* of the padded inputs
InitPairwise ==
    /\ store \in {[EmptyStore EXCEPT !["padded_df"] = File(p)] :
                     p \in PaddedInputs}
    /\ call = NoCall
    /\ drv = Idle
    /\ status = <<>>
    /\ hist = NoHist
    /\ NoSessions

NextPairwise == CallPairwiseMeetings

SpecPairwise == InitPairwise /\ [][NextPairwise]_vars

\* calculate_cage_occupancy called on a project whose binary_df is any of
\* the binary inputs
InitCageOccupancy ==
    /\ store \in {[EmptyStore EXCEPT !["binary_df"] = File(b)] :
                     b \in BinaryInputs}
    /\ call = NoCall
    /\ drv = Idle
    /\ status = <<>>
    /\ hist = NoHist
    /\ NoSessions

NextCageOccupancy == CallCageOccupancy

SpecCageOccupancy == InitCageOccupancy /\ [][NextCageOccupancy]_vars

\* calculate_time_alone called on the same projects
NextTimeAlone == CallTimeAlone

SpecTimeAlone == InitCageOccupancy /\ [][NextTimeAlone]_vars

\* calculate_activity called on a project whose padded_df is any of the
\* padded inputs
NextActivity == CallActivity

SpecActivity == InitPairwise /\ [][NextActivity]_vars

\* calculate_incohort_sociability called on a project in which activity_df
\* and pairwise_meetings were computed from padded_df and saved
InitSociability ==
    /\ store \in
          {[EmptyStore EXCEPT
               !["padded_df"] = File(p),
               !["phase_durations"] = File(PhaseDurations(p)),
               !["activity_df"] = File(DensifyActivity(ActivityCounts(p))),
               !["pairwise_meetings"] =
                   File(DensifyMeetings(Meetings(joined(CageIntervals(p), m))))]
             : p \in PaddedInputs, m \in MinimumTimes}
    /\ call = NoCall
    /\ drv = Idle
    /\ status = <<>>
    /\ hist = NoHist
    /\ NoSessions

NextSociability == CallIncohortSociability

SpecSociability == InitSociability /\ [][NextSociability]_vars

\* two sessions of the analysis page; every project holds the recording
\* with MaxRec episodes
InitSessions ==
    /\ store = EmptyStore
    /\ call = NoCall
    /\ drv = Idle
    /\ status = <<>>
    /\ hist = NoHist
    /\ pages = [s \in Pages |-> IdlePage]
    /\ projects = [p \in Projects |-> RawStore(MaxRec)]

NextSessions ==
    \/ update_analysis_page
    \/ ClickAnalyze
    \/ PageSetRunning
    \/ PageRunStep
    \/ PageSetFinished
    \/ PageFinish

SpecSessions == InitSessions /\ [][NextSessions]_vars

\* a project with any subset of the raw tables missing
PartialRawStore(n, missing) ==
    [k \in Keys |-> IF k \in missing THEN NoFile ELSE RawStore(n)[k]]

\* the analysis page: runs of start_analysis, one after another
InitDriver ==
    /\ store \in {PartialRawStore(n, missing) :
                     n \in 0..MaxRec, missing \in SUBSET RawKeys}
    /\ call = NoCall
    /\ drv = Idle
    /\ status = <<>>
    /\ hist = NoHist
    /\ NoSessions

NextDriver ==
    \/ start_analysis
    \/ SetRunning
    \/ RunStep
    \/ SetFinished
    \/ Finish

SpecDriver == InitDriver /\ [][NextDriver]_vars

(***************************************************************************)
(* Claims                                                                  *)
(***************************************************************************)
Range(seq) == {seq[i] : i \in DOMAIN seq}
IsStageCall == call.stage \in StageKeys

\* C1 (as claimed): for every stage, a call with overwrite=False made while
\* the stage's artifact is persisted returns that artifact and computes
\* nothing: it requests no upstream table and writes no file, whatever the
\* stage's options.  calculate_pairwise_meetings breaks it.
C1_CachedCallComputesNothing ==
    (IsStageCall /\ ~call.overwrite /\ call.before # NoFile) =>
        /\ call.outcome = "hit"
        /\ call.ret.kind = "LazyFrame"
        /\ call.ret.data = call.before[1]
        /\ call.loads = {}
        /\ call.writes = {}

\* C2: for every stage, a call with overwrite=True and save_data=True is
\* never answered from the persisted artifact; when it returns, it has
\* requested its upstream tables and the stage's file holds exactly the
\* table the call built.
C2_OverwriteRecomputesAndReplaces ==
    (IsStageCall /\ call.overwrite /\ call.save_data) =>
        /\ call.outcome # "hit"
        /\ call.outcome = "computed" =>
              /\ call.loads # {}
              /\ call.stage \in call.writes
              /\ call.table.kind = "LazyFrame"
              /\ store[call.stage] = File(call.table.data)

\* an overwriting call that replaced an existing artifact by a different table
C2_Witness ==
    /\ IsStageCall /\ call.overwrite /\ call.save_data
    /\ call.outcome = "computed"
    /\ call.before # NoFile
    /\ store[call.stage] # call.before

\* C3: for every stage, a call with save_data=False changes no file of the
\* results directory: it writes neither the stage's artifact nor, in
\* calculate_chasings, match_df.
C3_NoSaveWritesNothing ==
    [][(call'.stage \in StageKeys /\ ~call'.save_data) =>
          (store' = store /\ call'.writes = {})]_vars

\* calculate_chasings computed its table with save_data=False and neither
\* chasings_df nor match_df is there
C3_Witness ==
    /\ call.stage = "chasings_df" /\ ~call.save_data
    /\ call.outcome = "computed"
    /\ call.table.data # {}
    /\ ~Exists(store, "chasings_df") /\ ~Exists(store, "match_df")

\* the stage order of the specification
SevenStages ==
    << "activity_df", "cage_occupancy", "chasings_df", "ranking",
       "pairwise_meetings", "incohort_sociability", "time_alone" >>

RunCompleted == drv.pc = "returned" /\ drv.out = <<"True", "True">>
ProgressReports == SelectSeq(hist.writes, LAMBDA w : w.msg[1] = "Finished")

\* C4 (as claimed): a pipeline run executes exactly the seven stages, in the
\* specification's order and each once, and reports one progress result per
\* completed stage with total = the number of distinct stages.  The driver
\* runs pairwise_meetings twice and counts eight steps.
C4_SevenStagesOnceEach ==
    /\ \A j, k \in DOMAIN hist.started : j # k => hist.started[j] # hist.started[k]
    /\ RunCompleted =>
          /\ hist.started = SevenStages
          /\ hist.finished = SevenStages
          /\ Len(ProgressReports) = Len(SevenStages)
          /\ total_steps = Cardinality(Range(ANALYSIS_STEPS))

\* the stage that writes a derived table
Producer(key) == IF key = "match_df" THEN "chasings_df" ELSE key

\* C5: in a run that started with no derived artifact persisted, every
\* derived table a stage requests was produced by a stage that completed
\* earlier in the same run, and is there when it is requested.
C5_StagesFollowTheirProducers ==
    (drv.fresh /\ IsStageCall) =>
        \A key \in call.loads \cap DerivedKeys :
            /\ Producer(key) \in Range(hist.finished)
            /\ Exists(store, key)

\* in-cohort sociability computed in a fresh run, after activity and
\* pairwise_meetings
C5_Witness ==
    /\ drv.fresh /\ drv.pc = "finish"
    /\ call.stage = "incohort_sociability" /\ call.outcome = "computed"
    /\ call.loads = {"phase_durations", "pairwise_meetings", "activity_df"}

\* C6: when a stage call of a run raises, the exception leaves
\* start_analysis (nothing is returned), the failed stage is the last one
\* started, and no status write of the run shows the failed stage as
\* finished or a percent of 100; the last write is the stage's "Running".
C6_FailureStopsTheRun ==
    (IsStageCall /\ call.outcome = "error") =>
        /\ drv.pc = "raised" /\ drv.out = <<>>
        /\ Len(hist.started) = drv.i + 1
        /\ hist.started[Len(hist.started)] = call.stage
        /\ call.stage \notin Range(hist.finished)
        /\ status = <<[percent |-> Percent(drv.i),
                       msg |-> <<"Running", call.stage>>]>>
        /\ hist.writes[Len(hist.writes)] = status[1]
        /\ \A w \in Range(hist.writes) :
              w.percent < 100 /\ w.msg # <<"Finished", call.stage>>

\* a stage failed after earlier stages of the run had finished
C6_Witness ==
    /\ drv.pc = "raised" /\ call.outcome = "error"
    /\ Len(hist.finished) >= 3

\* C7: a stage call that requests an upstream table for which no file is
\* persisted raises: it returns nothing, builds no table, and leaves the
\* stage's own file as it was.
C7_MissingUpstreamIsFatal ==
    (IsStageCall /\ \E k \in call.loads : ~Exists(store, k)) =>
        /\ call.outcome = "error"
        /\ call.ret = NoneVal
        /\ call.table = NoneVal
        /\ call.stage \notin call.writes
        /\ store[call.stage] = call.before

\* in-cohort sociability called with activity_df persisted and
\* pairwise_meetings not
C7_Witness ==
    /\ call.stage = "incohort_sociability" /\ call.outcome = "error"
    /\ Exists(store, "activity_df") /\ Exists(store, "phase_durations")
    /\ ~Exists(store, "pairwise_meetings")

\* C8 (as claimed): calculate_ranking returns the ranking history table,
\* the table it built when it computes and the persisted one on a cache
\* hit, never the animal-to-rating mapping.  The computing call returns the
\* mapping.
C8_RankingReturnsTheTable ==
    (call.stage = "ranking" /\ call.outcome \in {"hit", "computed"}) =>
        /\ call.ret.kind = "LazyFrame"
        /\ call.outcome = "computed" => call.ret.data = call.table.data
        /\ call.outcome = "hit" => call.ret.data = call.before[1]

\* the ranking table of an empty match stream: one row per animal with the
\* default prior
DefaultRows ==
    [i \in DOMAIN animal_ids |->
        [animal_id |-> animal_ids[i], mu |-> DefaultMu,
         sigma |-> DefaultSigma,
         ordinal |-> ordinal(Rating(DefaultMu, DefaultSigma))]]

\* C9 (as claimed): with match_df persisted and empty, a computing call of
\* calculate_ranking (no seed) completes, and its table has exactly one row
\* per animal with the default mu and sigma and their ordinal.  The call
\* builds a table of no rows, and raises when it saves it.
C9_EmptyStreamGivesDefaultRows ==
    (/\ call.stage = "ranking" /\ call.outcome # "hit"
     /\ call.opt = <<NoneVal>>
     /\ store["match_df"] = File(<<>>)) =>
        /\ call.outcome = "computed"
        /\ Len(call.table.data) = Len(animal_ids)
        /\ \A i \in DOMAIN animal_ids :
              /\ call.table.data[i].animal_id = DefaultRows[i].animal_id
              /\ call.table.data[i].mu = DefaultRows[i].mu
              /\ call.table.data[i].sigma = DefaultRows[i].sigma
              /\ call.table.data[i].ordinal = DefaultRows[i].ordinal

\* C10 (as claimed): with match_df persisted, a computing call of
\* calculate_ranking completes and enters its loop with the seeded rating
\* of every animal when prev_ranking is given, and with the default prior
\* when it is not.  A dict seed raises and a frame seed is ignored.
C10_SeedIsTheInitialState ==
    (/\ call.stage = "ranking" /\ call.outcome # "hit"
     /\ Exists(store, "match_df") /\ store["match_df"] # File(<<>>)) =>
        /\ call.outcome = "computed"
        /\ call.init = IF call.opt[1].kind = "None" THEN DefaultRanking
                       ELSE call.opt[1].data

\* the ordered pairs (chaser, chased) of distinct configured animals
OrderedPairs == {p \in Animals \X Animals : p[1] # p[2]}

\* C11 (as claimed): the table a computing call of calculate_chasings builds
\* has exactly one row for every observed (phase, day, phase_count, hour)
\* group and every ordered pair of distinct animals, with chasings = 0 where
\* the pair has no chase in the group, and no row of a self-pair or of
\* another group.  The rows the densification adds carry hour 0, one per
\* (phase, day, phase_count) and pair.
C11_OneRowPerHourGroupAndOrderedPair ==
    (/\ call.stage = "chasings_df" /\ call.outcome = "computed"
     /\ store["main_df"] # File(<<>>)) =>
        LET t == call.table.data
            counts == ChasingCounts(Intermediate(store["main_df"][1],
                                                 call.opt[1]))
            groups == {<<c.tg, c.hour>> : c \in counts}
            cell(g, p) == {r \in t : /\ r.tg = g[1] /\ r.hour = g[2]
                                     /\ r.chaser = p[1] /\ r.chased = p[2]}
        IN  /\ \A g \in groups, p \in OrderedPairs :
                  /\ Cardinality(cell(g, p)) = 1
                  /\ \A r \in cell(g, p) :
                        r.chasings = Cardinality(
                            {c \in counts : /\ c.tg = g[1] /\ c.hour = g[2]
                                            /\ c.chaser = p[1]
                                            /\ c.chased = p[2]})
            /\ \A r \in t : /\ <<r.tg, r.hour>> \in groups
                            /\ r.chaser # r.chased

\* the overlap of the intervals of two padded rows
IntervalOverlap(x, y) ==
    Min({x.datetime, y.datetime})
        - Max({x.datetime - x.time_spent, y.datetime - y.time_spent})

\* the pairs of padded rows (one of animal a, one of animal b) in the time
\* group and cage of table row r whose overlap is strictly above m
QualifyingOverlaps(p, r, m) ==
    {q \in p \X p :
        /\ q[1].animal_id = r.animal_id /\ q[2].animal_id = r.animal_id_2
        /\ q[1].position = r.position /\ q[2].position = r.position
        /\ q[1].phase = r.phase /\ q[2].phase = r.phase
        /\ q[1].day = r.day /\ q[2].day = r.day
        /\ q[1].phase_count = r.phase_count
        /\ q[2].phase_count = r.phase_count
        /\ IntervalOverlap(q[1], q[2]) > m}

RECURSIVE TotalOverlap(_)
TotalOverlap(S) ==
    IF S = {} THEN 0
    ELSE LET q == CHOOSE q \in S : TRUE
         IN  IntervalOverlap(q[1], q[2]) + TotalOverlap(S \ {q})

PairwiseComputed ==
    call.stage = "pairwise_meetings" /\ call.outcome = "computed"

\* C12: in the table a computing call of calculate_pairwise_meetings builds,
\* for every (phase, day, phase_count, position) group present, each
\* unordered pair of distinct animals is in exactly one row, every row has
\* its two animals in the order of animal_ids, and none pairs an animal
\* with itself.
C12_EachUnorderedPairOncePerGroup ==
    PairwiseComputed =>
        LET t == call.table.data
            groups == {<<r.phase, r.day, r.phase_count, r.position>> : r \in t}
            cell(g, a, b) ==
                {r \in t : /\ <<r.phase, r.day, r.phase_count, r.position>> = g
                           /\ {r.animal_id, r.animal_id_2} = {a, b}}
        IN  /\ \A g \in groups : \A a, b \in Animals :
                  a # b => Cardinality(cell(g, a, b)) = 1
            /\ \A r \in t :
                  AnimalIndex(r.animal_id) < AnimalIndex(r.animal_id_2)

\* a computed table with a pair that met and pairs that did not
C12_Witness ==
    /\ PairwiseComputed
    /\ \E r \in call.table.data : r.pairwise_encounters > 0
    /\ \E r \in call.table.data : r.pairwise_encounters = 0

C14_AllZeroTableAboveEveryOverlap ==
    (/\ call.stage = "pairwise_meetings" /\ call.outcome # "hit"
     /\ Exists(store, "padded_df")
     /\ \A q \in store["padded_df"][1] \X store["padded_df"][1] :
           (/\ q[1].animal_id # q[2].animal_id
            /\ q[1].position = q[2].position /\ q[1].position \in cages
            /\ q[1].phase = q[2].phase /\ q[1].day = q[2].day
            /\ q[1].phase_count = q[2].phase_count) =>
               IntervalOverlap(q[1], q[2]) < call.opt[1]) =>
        LET t == call.table.data
            observed == {<<x.phase, x.day, x.phase_count>> :
                            x \in store["padded_df"][1]}
        IN  /\ call.outcome = "computed"
            /\ \A g \in observed, pr \in all_pairs, pos \in positions :
                  Cardinality({r \in t :
                      /\ <<r.phase, r.day, r.phase_count>> = g
                      /\ r.animal_id = pr[1] /\ r.animal_id_2 = pr[2]
                      /\ r.position = pos}) = 1
            /\ \A r \in t :
                  r.time_together = 0 /\ r.pairwise_encounters = 0

\* C15: the table a computing call of calculate_cage_occupancy builds has
\* exactly one row for every hour from the hour of the first to the hour of
\* the last raw timestamp (hours without events included), animal and cage,
\* and no other row; its time_spent is the number of binary_df rows of the
\* animal in the cage in that hour, 0 where there are none.
C15_OccupancyGridAndCounts ==
    (call.stage = "cage_occupancy" /\ call.outcome = "computed") =>
        LET t == call.table.data
            b == store["binary_df"][1]
            first == truncate_1h(Min({x.datetime : x \in b}))
            last == truncate_1h(Max({x.datetime : x \in b}))
            buckets == {first + k * Hour : k \in 0..((last - first) \div Hour)}
            cell(h, a, c) ==
                {r \in t : /\ r.day = get_day(h) /\ r.hour = get_hour(h)
                           /\ r.animal_id = a /\ r.cage = c}
        IN  /\ \A h \in buckets, a \in Animals, c \in cages :
                  /\ Cardinality(cell(h, a, c)) = 1
                  /\ \A r \in cell(h, a, c) :
                        r.time_spent = Cardinality(
                            {x \in b : /\ truncate_1h(x.datetime) = h
                                       /\ x.animal_id = a /\ x.cage = c})
            /\ Cardinality(t) =
                   Cardinality(buckets) * Cardinality(Animals) * Cardinality(cages)

\* a computed table with a counted hour and with an hour without events
\* between the first and the last
C15_Witness ==
    /\ call.stage = "cage_occupancy" /\ call.outcome = "computed"
    /\ \E r \in call.table.data : r.time_spent > 1
    /\ \E r \in call.table.data :
          \A x \in store["binary_df"][1] :
              get_hour(x.datetime) # r.hour \/ get_day(x.datetime) # r.day

\* C16: the table a computing call of calculate_activity builds has exactly
\* one row for every observed (phase, day, phase_count), animal and
\* position, and no other row; time_in_position is the sum of time_spent
\* and visits_to_position the number of the padded rows of the animal at
\* the position in the group, either direction of the tunnel counting for
\* the tunnel, and both are 0 where there are none.
C16_ActivityGridAndSums ==
    (call.stage = "activity_df" /\ call.outcome = "computed") =>
        LET t == call.table.data
            p == store["padded_df"][1]
            groups == {<<x.phase, x.day, x.phase_count>> : x \in p}
            at(pos) == IF pos \in tunnels THEN tunnel_directions ELSE {pos}
            visits(g, a, pos) ==
                {x \in p : /\ <<x.phase, x.day, x.phase_count>> = g
                           /\ x.animal_id = a /\ x.position \in at(pos)}
            cell(g, a, pos) ==
                {r \in t : /\ <<r.phase, r.day, r.phase_count>> = g
                           /\ r.animal_id = a /\ r.position = pos}
        IN  /\ \A g \in groups, a \in Animals, pos \in positions :
                  /\ Cardinality(cell(g, a, pos)) = 1
                  /\ \A r \in cell(g, a, pos) :
                        /\ r.time_in_position = SumTimeSpent(visits(g, a, pos))
                        /\ r.visits_to_position = Cardinality(visits(g, a, pos))
            /\ Cardinality(t) =
                   Cardinality(groups) * Cardinality(Animals) * Cardinality(positions)

\* a computed table in which an animal crossed the tunnel in both directions
\* in one group, and some animal never visited some position
C16_Witness ==
    /\ call.stage = "activity_df" /\ call.outcome = "computed"
    /\ \E r \in call.table.data :
          r.position \in tunnels /\ r.visits_to_position = 2
    /\ \E r \in call.table.data : r.visits_to_position = 0

\* C17: the table a computing call of calculate_time_alone builds has
\* exactly one row for every observed (phase, day), animal and cage, and no
\* other row; its time_alone is the number of moments of that phase and day
\* at which the animal is the only one recorded in the cage, so a moment
\* with two or more animals in the cage counts for none of them, and the
\* value is 0 where there is no such moment.
C17_TimeAloneGridAndCounts ==
    (call.stage = "time_alone" /\ call.outcome = "computed") =>
        LET t == call.table.data
            b == store["binary_df"][1]
            groups == {<<get_phase(x.datetime), get_day(x.datetime)>> : x \in b}
            in_cage(m, c) == {x.animal_id : x \in {y \in b :
                                 y.datetime = m /\ y.cage = c}}
            alone(g, a, c) ==
                {m \in {x.datetime : x \in b} :
                    /\ <<get_phase(m), get_day(m)>> = g
                    /\ in_cage(m, c) = {a}}
            cell(g, a, c) ==
                {r \in t : /\ <<r.phase, r.day>> = g
                           /\ r.animal_id = a /\ r.cage = c}
        IN  /\ \A g \in groups, a \in Animals, c \in cages :
                  /\ Cardinality(cell(g, a, c)) = 1
                  /\ \A r \in cell(g, a, c) :
                        r.time_alone = Cardinality(alone(g, a, c))
            /\ Cardinality(t) =
                   Cardinality(groups) * Cardinality(Animals) * Cardinality(cages)

\* a computed table from a recording with a moment of two animals in one
\* cage and a moment of an animal alone
C17_Witness ==
    /\ call.stage = "time_alone" /\ call.outcome = "computed"
    /\ \E x, y \in store["binary_df"][1] :
          /\ x.animal_id # y.animal_id
          /\ x.datetime = y.datetime /\ x.cage = y.cage
    /\ \E r \in call.table.data : r.time_alone > 0

\* C18 (as claimed): the table a computing call of
\* calculate_incohort_sociability builds has exactly one row per (phase,
\* day, phase_count, pair) of pairwise_meetings, in which each position
\* contributes one term: proportion_together is the sum over the positions
\* of time_together / duration, and sociability the sum over the positions
\* of time_together / duration - time_in_position_a * time_in_position_b /
\* duration^2, with the activity of that phase, day and phase_count.  When
\* activity_df has the phase occurrence under two day values, every
\* position's term is there once per day value.
C18_OneTermPerPosition ==
    (call.stage = "incohort_sociability" /\ call.outcome = "computed") =>
        LET t == call.table.data
            pm == store["pairwise_meetings"][1]
            act == store["activity_df"][1]
            dur == store["phase_durations"][1]
            key(x) == [phase |-> x.phase, day |-> x.day,
                       phase_count |-> x.phase_count,
                       animal_id |-> x.animal_id,
                       animal_id_2 |-> x.animal_id_2]
            D(k) == (CHOOSE d \in dur :
                        d.phase = k.phase /\ d.phase_count = k.phase_count
                    ).duration_seconds
            tt(k, pos) == (CHOOSE x \in pm : key(x) = k /\ x.position = pos
                          ).time_together
            tip(k, a, pos) ==
                (CHOOSE x \in act :
                    /\ x.phase = k.phase /\ x.day = k.day
                    /\ x.phase_count = k.phase_count
                    /\ x.animal_id = a /\ x.position = pos).time_in_position
            together(k) == SumValue({[row |-> pos, value |-> tt(k, pos)]
                                        : pos \in positions})
            social(k) ==
                SumValue({[row |-> pos,
                           value |-> tt(k, pos) * D(k)
                               - tip(k, k.animal_id, pos)
                                   * tip(k, k.animal_id_2, pos)]
                             : pos \in positions})
        IN  /\ \A k \in {key(x) : x \in pm} :
                  /\ Cardinality({r \in t : key(r) = k}) = 1
                  /\ \A r \in {r \in t : key(r) = k} :
                        /\ r.proportion_together = Over(together(k), D(k), 1)
                        /\ r.sociability = Over(social(k), D(k), 2)
            /\ \A r \in t : key(r) \in {key(x) : x \in pm}

\* C19 (as claimed): runs of start_analysis on one project are serialized:
\* while the callback of one session is in progress on a project, no
\* callback of another session is in progress on the same project.
\* Nothing in start_analysis or update_analysis_page keeps a second
\* session from starting.
C19_SameProjectRunsAreSerialized ==
    \A s1, s2 \in Pages :
        (s1 # s2 /\ InProgress(s1) /\ InProgress(s2)) =>
            pages[s1].config # pages[s2].config

\* C20 (as claimed): while two runs on different projects are in progress,
\* each has written only files of its own project, and the progress
\* reported, launch_cache["analysis_status"], is for each run what that run
\* wrote last.  The status key is one for all runs.
C20_ConcurrentProjectsShareNothing ==
    \A s1, s2 \in Pages :
        (/\ s1 # s2 /\ InProgress(s1) /\ InProgress(s2)
         /\ pages[s1].config # pages[s2].config) =>
            /\ \A w \in pages[s1].wrote : w[1] = pages[s1].config[1]
            /\ status = pages[s1].last

(***************************************************************************)
(* calculate_chasings on any recording                                     *)
(***************************************************************************)
\* the number of rows of main_df
MaxMain == 4

\* one row of main_df: the animal was read leaving the position at t
MainRow(a, p, t) ==
    [animal_id |-> a, position |-> p, datetime |-> t, tg |-> 1,
     hour |-> get_hour(t)]

\* the rows main_df is drawn from, around the end of the first hour: A and
\* B leave cage c1 into tunnel t1, 0.7 s apart, and leave the tunnel at
\* various times, the last ones in the next hour; B also has a tunnel row
\* before its cage row
T0 == Hour - 18
MainUniverse ==
    {MainRow("A", "c1", T0), MainRow("A", "t1", T0 + 8),
     MainRow("A", "t1", T0 + 9), MainRow("A", "t1", T0 + 10),
     MainRow("A", "t1", T0 + 18), MainRow("A", "t1", T0 + 19),
     MainRow("B", "t1", T0 + 5), MainRow("B", "c1", T0 + 7),
     MainRow("B", "t1", T0 + 9), MainRow("B", "t1", T0 + 17),
     MainRow("B", "t1", T0 + 25)}

\* main_df is in chronological order
RECURSIVE MainSeq(_)
MainSeq(S) ==
    IF S = {} THEN <<>>
    ELSE LET key(r) == r.datetime * 4 + AnimalIndex(r.animal_id)
             first == CHOOSE x \in S : \A y \in S : key(x) <= key(y)
         IN  <<first>> \o MainSeq(S \ {first})

\* a chase in the next hour: B leaves cage c1 again and A is read at the
\* tunnel 0.3 s later, before B
NextHourChase ==
    {MainRow("B", "c1", T0 + 27), MainRow("A", "t1", T0 + 30),
     MainRow("B", "t1", T0 + 35)}

\* main_df: up to MaxMain rows of the first kind, with or without the
\* chase of the next hour after them
MainInputs ==
    {MainSeq(S \cup N) :
        S \in SubsetsUpTo(MainUniverse, MaxMain), N \in {{}, NextHourChase}}

\* calculate_chasings called on a project whose main_df is any of the inputs
InitChasings ==
    /\ store \in {[EmptyStore EXCEPT !["main_df"] = File(m)] : m \in MainInputs}
    /\ call = NoCall
    /\ drv = Idle
    /\ status = <<>>
    /\ hist = NoHist
    /\ NoSessions

NextChasings == CallChasings

SpecChasings == InitChasings /\ [][NextChasings]_vars

\* the last call was a call of calculate_chasings that computed its table
ChasingsComputed == call.stage = "chasings_df" /\ call.outcome = "computed"

\* the rows that call handed to get_matches
MatchPairs == Intermediate(store["main_df"][1], call.opt[1])

\* a match event was emitted for chased row i and chaser row j of main_df
EmitsMatch(lf, i, j) ==
    \E k \in DOMAIN MatchPairs :
        /\ MatchPairs[k].animal_id = lf[i].animal_id
        /\ MatchPairs[k].datetime = lf[i].datetime
        /\ MatchPairs[k].animal_id_chasing = lf[j].animal_id
        /\ MatchPairs[k].datetime_chasing = lf[j].datetime

\* the chaser's tunnel entry: the timestamp of its preceding row
TunnelEntry(lf, j) == lf[PrevRow(lf, j)].datetime

\* the five conditions as the claim lists them
ClaimedChase(lf, i, j, window) ==
    /\ lf[i].animal_id # lf[j].animal_id
    /\ lf[j].position = lf[i].position
    /\ PrevRow(lf, j) # 0
    /\ lf[PrevRow(lf, j)].position \in cages
    /\ window[1] < lf[i].datetime - TunnelEntry(lf, j)
    /\ lf[i].datetime - TunnelEntry(lf, j) < window[2]
    /\ TunnelEntry(lf, j) < lf[i].datetime

\* the pairs the claim is about: a chased row at a tunnel and a chaser row
\* in the same (phase, day, hour, phase_count) group
ChasePairs(lf) ==
    {p \in (DOMAIN lf) \X (DOMAIN lf) :
        /\ lf[p[1]].position \in tunnels
        /\ lf[p[1]].tg = lf[p[2]].tg /\ lf[p[1]].hour = lf[p[2]].hour}

\* C21 (as claimed): a match event is emitted for a chased tunnel row and a
\* chaser row of the same group if and only if the animals differ, both
\* rows are at the same tunnel, the chaser's preceding row is at a cage, the
\* time from the chaser's tunnel entry to the chased animal's tunnel row is
\* strictly inside the window, and the chaser's entry precedes the chased
\* animal's row.  The code also requires the chased animal's row to precede
\* the chaser's row.
C21_ChaseIffFiveConditions ==
    ChasingsComputed =>
        LET lf == store["main_df"][1]
        IN  \A p \in ChasePairs(lf) :
                EmitsMatch(lf, p[1], p[2]) <=>
                    ClaimedChase(lf, p[1], p[2], call.opt[1])

\* C21 (amended): a match event is emitted for a chased tunnel row and a
\* chaser row of the same group if and only if the five conditions hold and
\* the chased animal's tunnel row is stamped strictly before the chaser's
\* row.  An elapsed time equal to a bound of the window gives no match, and
\* a chaser row with no preceding row never matches.
C21_ChaseIffConditionsAndChasedFirst ==
    ChasingsComputed =>
        LET lf == store["main_df"][1]
        IN  \A p \in ChasePairs(lf) :
                EmitsMatch(lf, p[1], p[2]) <=>
                    /\ ClaimedChase(lf, p[1], p[2], call.opt[1])
                    /\ lf[p[1]].datetime < lf[p[2]].datetime

\* a computing call on a recording with a pair that matches, a pair whose
\* elapsed time equals a bound of the window, and a chaser row that has no
\* preceding row
C21_Witness ==
    /\ ChasingsComputed
    /\ LET lf == store["main_df"][1]
           w == call.opt[1]
       IN  /\ \E p \in ChasePairs(lf) : EmitsMatch(lf, p[1], p[2])
           /\ \E p \in ChasePairs(lf) :
                 /\ lf[p[1]].animal_id # lf[p[2]].animal_id
                 /\ lf[p[2]].position = lf[p[1]].position
                 /\ PrevRow(lf, p[2]) # 0
                 /\ lf[PrevRow(lf, p[2])].position \in cages
                 /\ lf[p[1]].datetime - TunnelEntry(lf, p[2]) \in {w[1], w[2]}
                 /\ lf[p[1]].datetime < lf[p[2]].datetime
                 /\ ~EmitsMatch(lf, p[1], p[2])
           /\ \E p \in ChasePairs(lf) :
                 /\ lf[p[1]].animal_id # lf[p[2]].animal_id
                 /\ lf[p[2]].position = lf[p[1]].position
                 /\ PrevRow(lf, p[2]) = 0


\* the windows are in tenths of a second: the default (0.1 s, 1.2 s)
DefaultWindow == <<1, 12>>

\* the scenarios of main_df: A's cage row ia is followed by its tunnel row
\* ja, B's cage row ib, stamped 0.7 s after ia, is followed by its row jb at
\* the same tunnel, and the two tunnel rows are in one hour group
TunnelEntries(lf) ==
    {q \in (DOMAIN lf) \X (DOMAIN lf) \X (DOMAIN lf) \X (DOMAIN lf) :
        /\ PrevRow(lf, q[2]) = q[1] /\ PrevRow(lf, q[4]) = q[3]
        /\ lf[q[1]].animal_id # lf[q[3]].animal_id
        /\ lf[q[1]].position \in cages /\ lf[q[3]].position \in cages
        /\ lf[q[2]].position \in tunnels
        /\ lf[q[4]].position = lf[q[2]].position
        /\ lf[q[3]].datetime = lf[q[1]].datetime + 7
        /\ lf[q[2]].tg = lf[q[4]].tg /\ lf[q[2]].hour = lf[q[4]].hour}

\* the rows handed to get_matches for chased row i and chaser row j
MatchRows(lf, i, j) ==
    {k \in DOMAIN MatchPairs :
        /\ MatchPairs[k].animal_id = lf[i].animal_id
        /\ MatchPairs[k].datetime = lf[i].datetime
        /\ MatchPairs[k].animal_id_chasing = lf[j].animal_id
        /\ MatchPairs[k].datetime_chasing = lf[j].datetime}

\* C22 (as claimed): when A enters a tunnel from a cage at t and B enters
\* the same tunnel from a cage 0.7 s later, a computing call with the
\* default window records exactly one match event with winner B, loser A
\* and timestamp t + 0.7 s, and none with winner A and loser B.  The code
\* measures the window from B's entry to A's tunnel row and stamps the
\* event with B's tunnel row.
C22_FollowerAfterSevenTenths ==
    (ChasingsComputed /\ call.opt[1] = DefaultWindow) =>
        LET lf == store["main_df"][1]
            M == Matches(MatchPairs)
        IN  \A q \in TunnelEntries(lf) :
                /\ Cardinality({k \in DOMAIN M :
                       M[k] = [loser |-> lf[q[1]].animal_id,
                               winner |-> lf[q[3]].animal_id,
                               datetime |-> lf[q[1]].datetime + 7]}) = 1
                /\ \A k \in DOMAIN M :
                       ~(/\ M[k].loser = lf[q[3]].animal_id
                         /\ M[k].winner = lf[q[1]].animal_id)

\* when A's tunnel row is stamped strictly inside the window after B's
\* entry and before B's tunnel row
FollowedThrough(lf, q) ==
    /\ DefaultWindow[1] < lf[q[2]].datetime - lf[q[3]].datetime
    /\ lf[q[2]].datetime - lf[q[3]].datetime < DefaultWindow[2]
    /\ lf[q[2]].datetime < lf[q[4]].datetime

\* C22 (amended): when A enters a tunnel from a cage at t, B enters the
\* same tunnel from a cage 0.7 s later, and A's tunnel row is stamped more
\* than 0.1 s and less than 1.2 s after B's entry and before B's tunnel row,
\* a computing call with the default window records exactly one match event
\* for the two tunnel rows, with winner B, loser A and the timestamp of B's
\* tunnel row, and none for them with the roles reversed.
C22_FollowerRecordedAtItsTunnelRow ==
    (ChasingsComputed /\ call.opt[1] = DefaultWindow) =>
        LET lf == store["main_df"][1]
            M == Matches(MatchPairs)
        IN  \A q \in TunnelEntries(lf) :
                FollowedThrough(lf, q) =>
                    /\ Cardinality(MatchRows(lf, q[2], q[4])) = 1
                    /\ \A k \in MatchRows(lf, q[2], q[4]) :
                          M[k] = [loser |-> lf[q[1]].animal_id,
                                  winner |-> lf[q[3]].animal_id,
                                  datetime |-> lf[q[4]].datetime]
                    /\ MatchRows(lf, q[4], q[2]) = {}

\* a computing call with the default window on a recording in which B
\* follows A into the tunnel 0.7 s later and A leaves it inside the window
C22_Witness ==
    /\ ChasingsComputed /\ call.opt[1] = DefaultWindow
    /\ \E q \in TunnelEntries(store["main_df"][1]) :
          /\ FollowedThrough(store["main_df"][1], q)
          /\ MatchRows(store["main_df"][1], q[2], q[4]) # {}


(***************************************************************************)
(* calculate_ranking on any match table                                    *)
(***************************************************************************)
\* the number of rows of match_df
MaxMatches == 2

\* the rows match_df is drawn from: chases between two animals at two
\* instants.  A chaser row that matches two chased rows gives two rows with
\* one datetime.
MatchUniverse ==
    {[loser |-> p[1], winner |-> p[2], datetime |-> t] :
        p \in {<<"A", "B">>, <<"B", "A">>, <<"B", "C">>, <<"C", "A">>},
        t \in {T0 + 9, T0 + 17}}

\* match_df.parquet holds the rows in the order of the join, not of time
RECURSIVE SeqsUpTo(_, _)
SeqsUpTo(U, k) ==
    IF k = 0 THEN {<<>>}
    ELSE LET shorter == SeqsUpTo(U, k - 1)
         IN  shorter \cup {Append(q, x) : q \in shorter, x \in U}

MatchInputs == SeqsUpTo(MatchUniverse, MaxMatches)

\* calculate_ranking called on a project whose match_df is any of the inputs
InitRanking ==
    /\ store \in {[EmptyStore EXCEPT !["match_df"] = File(m)] : m \in MatchInputs}
    /\ call = NoCall
    /\ drv = Idle
    /\ status = <<>>
    /\ hist = NoHist
    /\ NoSessions

NextRanking == CallRanking

SpecRanking == InitRanking /\ [][NextRanking]_vars

\* the last call was a call of calculate_ranking that ran its loop
RankingComputed == call.stage = "ranking" /\ call.outcome = "computed"

\* the rows of a table by non-decreasing datetime, rows of one datetime in
\* the order of the table
StableSort(df) ==
    LET n == Len(df)
        place(i) ==
            1 + Cardinality({j \in 1..n :
                    \/ df[j].datetime < df[i].datetime
                    \/ df[j].datetime = df[i].datetime /\ j < i})
    IN  [p \in 1..n |-> df[CHOOSE i \in 1..n : place(i) = p]]

\* C23 (as claimed): a computing call of calculate_ranking consumes the
\* rows of match_df by non-decreasing datetime, rows of one datetime in the
\* order of the persisted table, so its rating history is the one of that
\* order, the same for every run over the table.  sort("datetime") does not
\* keep the order of rows with equal datetime.
C23_EventsConsumedInStableTimeOrder ==
    RankingComputed =>
        call.table.data =
            RateAll(call.init, StableSort(store["match_df"][1]),
                    Len(store["match_df"][1])).rows


\* the rows of the history the call built, and the row of an animal in the
\* snapshot of the e-th event
History == call.table.data
HistoryRow(e, a) == History[(e - 1) * Len(animal_ids) + AnimalIndex(a)]

\* the rating of an animal when the e-th event is processed
RatingBefore(e, a) ==
    IF e = 1 THEN call.init[a]
    ELSE Rating(HistoryRow(e - 1, a).mu, HistoryRow(e - 1, a).sigma)

\* C24: in a computing call of calculate_ranking, processing an event
\* lowers the rating of its loser and raises that of its winner, and the
\* (mu, sigma) of every other animal is the same after the event as before
\* it, for the events taken in an order of non-decreasing datetime.
C24_OnlyLoserAndWinnerChange ==
    RankingComputed =>
        \E consumed \in SortedOrders(store["match_df"][1]) :
            /\ Len(History) = Len(consumed) * Len(animal_ids)
            /\ \A e \in DOMAIN consumed, a \in Animals :
                  /\ HistoryRow(e, a).animal_id = a
                  /\ HistoryRow(e, a).datetime = consumed[e].datetime
                  /\ a \notin {consumed[e].loser, consumed[e].winner} =>
                        /\ HistoryRow(e, a).mu = RatingBefore(e, a).mu
                        /\ HistoryRow(e, a).sigma = RatingBefore(e, a).sigma
                  /\ a = consumed[e].loser =>
                        HistoryRow(e, a).mu < RatingBefore(e, a).mu
                  /\ a = consumed[e].winner =>
                        HistoryRow(e, a).mu > RatingBefore(e, a).mu

\* a computing call in which an animal rated in the first event is left
\* alone by the second
C24_Witness ==
    /\ RankingComputed
    /\ Len(History) = 2 * Len(animal_ids)
    /\ \E a \in Animals :
          /\ HistoryRow(1, a).mu # call.init[a].mu
          /\ HistoryRow(2, a).mu = HistoryRow(1, a).mu
          /\ HistoryRow(2, a).sigma = HistoryRow(1, a).sigma

\* C25: after k events the history of a computing call of calculate_ranking
\* has k x (number of animals) rows: the rows it had after k - 1 events,
\* unchanged, followed by one row for every animal with the animal's mu,
\* sigma and ordinal after the event and the event's datetime.
C25_HistoryIsAppendOnlySnapshots ==
    RankingComputed =>
        \E consumed \in SortedOrders(store["match_df"][1]) :
            /\ Len(History) = Len(consumed) * Len(animal_ids)
            /\ \A k \in 0..Len(consumed) :
                  LET after == RateAll(call.init, consumed, k)
                  IN  /\ Len(after.rows) = k * Len(animal_ids)
                      /\ SubSeq(History, 1, k * Len(animal_ids)) = after.rows
                      /\ k > 0 =>
                            \A a \in Animals :
                                /\ HistoryRow(k, a).animal_id = a
                                /\ HistoryRow(k, a).mu = after.ranking[a].mu
                                /\ HistoryRow(k, a).sigma = after.ranking[a].sigma
                                /\ HistoryRow(k, a).ordinal =
                                      after.ranking[a].mu - 3 * after.ranking[a].sigma
                                /\ HistoryRow(k, a).datetime = consumed[k].datetime

\* a computing call that saved the history of two events of different
\* datetimes
C25_Witness ==
    /\ RankingComputed /\ call.save_data
    /\ Len(History) = 2 * Len(animal_ids)
    /\ History[1].datetime < History[Len(History)].datetime
    /\ store["ranking"] = File(History)


\* the sum of the chasings column of a set of rows
RECURSIVE SumChasings(_)
SumChasings(t) ==
    IF t = {} THEN 0
    ELSE LET r == CHOOSE x \in t : TRUE
         IN  r.chasings + SumChasings(t \ {r})

\* C26: the chasings of the table a computing call of calculate_chasings
\* builds sum to the number of match events of the call, the rows handed to
\* get_matches, and for every ordered pair (chaser, chased) the chasings of
\* the pair's rows sum to the number of match events with that winner and
\* loser.
C26_ChasingsSumToTheMatches ==
    ChasingsComputed =>
        LET t == call.table.data
            M == Matches(MatchPairs)
        IN  /\ SumChasings(t) = Len(M)
            /\ \A p \in OrderedPairs :
                  SumChasings({r \in t : r.chaser = p[1] /\ r.chased = p[2]}) =
                      Cardinality({k \in DOMAIN M :
                          M[k].winner = p[1] /\ M[k].loser = p[2]})
            /\ \A r \in t : <<r.chaser, r.chased>> \in OrderedPairs

\* a computing call whose table has rows of one pair in two hours of a time
\* group, and a row the densification added
C26_Witness ==
    /\ ChasingsComputed
    /\ \E r1, r2 \in call.table.data :
          /\ r1.chaser = r2.chaser /\ r1.chased = r2.chased /\ r1.tg = r2.tg
          /\ r1.hour # r2.hour /\ r1.chasings > 0 /\ r2.chasings > 0
    /\ \E r \in call.table.data : r.chasings = 0


\* the two artifacts of calculate_chasings as one call with the window w
\* writes them from main_df
ChasingArtifacts(main_df, w) ==
    [chasings_df |-> File(DensifyChasings(ChasingCounts(Intermediate(main_df, w)))),
     match_df |-> File(Matches(Intermediate(main_df, w)))]

\* C27: after any sequence of calls of calculate_chasings the files
\* chasings_df and match_df are both absent or are the two tables of one
\* call, of the same main_df and the same chasing_time_window; a call that
\* returns the cached table and a call with save_data=False write neither,
\* and a saving call that computes writes both.
C27_ChasingsAndMatchesOfOneCall ==
    /\ Exists(store, "chasings_df") <=> Exists(store, "match_df")
    /\ Exists(store, "chasings_df") =>
          \E w \in ChasingWindows :
              /\ store["chasings_df"] =
                    ChasingArtifacts(store["main_df"][1], w).chasings_df
              /\ store["match_df"] =
                    ChasingArtifacts(store["main_df"][1], w).match_df
    /\ (call.stage = "chasings_df" /\ (call.outcome = "hit" \/ ~call.save_data)) =>
          /\ call.writes = {}
          /\ store["chasings_df"] = call.before
    /\ (ChasingsComputed /\ call.save_data) =>
          /\ call.writes = {"chasings_df", "match_df"}
          /\ store["chasings_df"] =
                ChasingArtifacts(store["main_df"][1], call.opt[1]).chasings_df
          /\ store["match_df"] =
                ChasingArtifacts(store["main_df"][1], call.opt[1]).match_df

\* both files are there, written with one window, and the last call
\* computed with another window, which gives other tables, and did not save
C27_Witness ==
    /\ Exists(store, "chasings_df") /\ Exists(store, "match_df")
    /\ ChasingsComputed /\ ~call.save_data
    /\ store["chasings_df"] # File(call.table.data)
    /\ store["match_df"] #
          ChasingArtifacts(store["main_df"][1], call.opt[1]).match_df


\* the number of "Finished" writes among the first k writes of the run
FinishedBy(k) ==
    Cardinality({j \in 1..k : hist.writes[j].msg[1] = "Finished"})

\* C28: in a run of start_analysis the percent written to analysis_status
\* starts at 0, never decreases from one write to the next, is below 100 in
\* every write made before the last step of ANALYSIS_STEPS has finished, and
\* is 100 in the write that reports the last step finished; the entry holds
\* the last write.
C28_PercentRisesToOneHundred ==
    LET W == hist.writes
    IN  W # <<>> =>
            /\ W[1].percent = 0
            /\ \A k \in 1..(Len(W) - 1) : W[k].percent <= W[k + 1].percent
            /\ \A k \in DOMAIN W :
                  IF FinishedBy(k) = total_steps THEN W[k].percent = 100
                  ELSE W[k].percent < 100
            /\ status = <<W[Len(W)]>>

\* a run that finished every step: the last write is at 100, the one before
\* it below
C28_Witness ==
    /\ drv.pc = "returned"
    /\ Len(hist.writes) = 1 + 2 * total_steps
    /\ FinishedBy(Len(hist.writes)) = total_steps
    /\ status[1].percent = 100
    /\ hist.writes[Len(hist.writes) - 1].percent < 100


====
